---- MODULE Spec2Model ----
(***************************************************************************)
(* The symbolic-to-numeric pipeline of the notebooks (docs/symbolics.ipynb *)
(* and docs/report/022.ipynb), the dynamics classes of docs/adr/002, the   *)
(* relativistic K-matrix and its plot of docs/report/009.ipynb, the        *)
(* Mandelbrot image of docs/report/019.ipynb, and the notebook test run    *)
(* configured in pyproject.toml.                                           *)
(*                                                                         *)
(* Numbers are exact Gaussian rationals (re + im*i)/den: the notebooks     *)
(* compute in floating point, whose rounding is not modelled.  The escape  *)
(* loop of the Mandelbrot image computes in multiples of 1/Scale.          *)
(***************************************************************************)
EXTENDS Integers, Sequences, FiniteSets, TLC

(* ---------------------------------------------------------------------- *)
(* Bounds of the model                                                     *)
(* ---------------------------------------------------------------------- *)
\* longest input array handed to a generated function
MaxLen == 2
\* largest value of the variable s in an input array
MaxS == 2
\* most cells of a notebook under test
MaxCells == 2

(* ---------------------------------------------------------------------- *)
(* Complex numbers, as numpy computes with them                            *)
(* ---------------------------------------------------------------------- *)
AbsInt(n) == IF n < 0 THEN -n ELSE n

\* the sequence [i \in 1..n |-> ...] with its elements evaluated once
Tuple(f) == f \o <<>>

RECURSIVE GCD(_, _)
GCD(a, b) == IF b = 0 THEN a ELSE GCD(b, a % b)

\* the result of a division by zero
NaN == [re |-> 0, im |-> 0, den |-> 0]

\* (a + b i)/d in lowest terms with a positive denominator
CNum(a, b, d) ==
    IF d = 0 THEN NaN
    ELSE LET g == GCD(GCD(AbsInt(a), AbsInt(b)), AbsInt(d))
             sg == IF d < 0 THEN -1 ELSE 1
         IN [re |-> (sg * a) \div g, im |-> (sg * b) \div g, den |-> (sg * d) \div g]

Rat(n, d) == CNum(n, 0, d)
Integer(n) == CNum(n, 0, 1)
CZero == Integer(0)
COne == Integer(1)
CI == CNum(0, 1, 1)

IsNaN(x) == x.den = 0
IsInteger(x) == x.den = 1 /\ x.im = 0

CAdd(x, y) ==
    IF IsNaN(x) \/ IsNaN(y) THEN NaN
    ELSE LET g == GCD(x.den, y.den)
             fx == y.den \div g
             fy == x.den \div g
         IN CNum(x.re * fx + y.re * fy, x.im * fx + y.im * fy, x.den * fx)

CMul(x, y) ==
    IF IsNaN(x) \/ IsNaN(y) THEN NaN
    ELSE LET gx == GCD(GCD(AbsInt(x.re), AbsInt(x.im)), y.den)
             gy == GCD(GCD(AbsInt(y.re), AbsInt(y.im)), x.den)
             a == x.re \div gx
             b == x.im \div gx
             c == y.re \div gy
             d == y.im \div gy
         IN CNum(a * c - b * d, a * d + b * c, (x.den \div gy) * (y.den \div gx))

CNeg(x) == CMul(Integer(-1), x)

\* 1/x; 1/0 is NaN
CInv(x) ==
    IF IsNaN(x) \/ (x.re = 0 /\ x.im = 0) THEN NaN
    ELSE LET g == GCD(AbsInt(x.re), AbsInt(x.im))
             a == x.re \div g
             b == x.im \div g
         IN CMul(CNum(a, -b, a * a + b * b), Rat(x.den, g))

RECURSIVE CPowNat(_, _)
CPowNat(x, n) == IF n = 0 THEN COne ELSE CMul(x, CPowNat(x, n - 1))

\* x**n for an integer n
CPowInt(x, n) == IF n >= 0 THEN CPowNat(x, n) ELSE CInv(CPowNat(x, -n))

(* ---------------------------------------------------------------------- *)
(* Expression graph: sympy's immutable tree of Symbol, Number,             *)
(* ImaginaryUnit, Add, Mul and Pow nodes.  A symbol's name is its sequence *)
(* of characters.                                                          *)
(* ---------------------------------------------------------------------- *)
Node(op, name, val, args) == [op |-> op, name |-> name, val |-> val, args |-> args]

Symbol(name) == Node("Symbol", name, CZero, <<>>)
Number(v) == Node("Number", <<>>, v, <<>>)
ImaginaryUnit == Node("ImaginaryUnit", <<>>, CI, <<>>)
\* a name of the kernel namespace that is not bound yet
Undefined == Node("Undefined", <<>>, CZero, <<>>)

IsNumber(e) == e.op = "Number"

\* the arguments of e when it is an op node, e itself otherwise (flattening)
ArgsAs(op, e) == IF e.op = op THEN e.args ELSE <<e>>

RECURSIVE FlattenArgs(_, _)
FlattenArgs(op, args) ==
    IF args = <<>> THEN <<>>
    ELSE ArgsAs(op, Head(args)) \o FlattenArgs(op, Tail(args))

RECURSIVE SumNumbers(_)
SumNumbers(args) ==
    IF args = <<>> THEN CZero
    ELSE IF IsNumber(Head(args)) THEN CAdd(Head(args).val, SumNumbers(Tail(args)))
    ELSE SumNumbers(Tail(args))

RECURSIVE ProductNumbers(_)
ProductNumbers(args) ==
    IF args = <<>> THEN COne
    ELSE IF IsNumber(Head(args)) THEN CMul(Head(args).val, ProductNumbers(Tail(args)))
    ELSE ProductNumbers(Tail(args))

NotNumber(e) == ~IsNumber(e)

\* the sum of a number and of terms that are not numbers
AddOf(coeff, rest) ==
    IF coeff = CZero /\ rest = <<>> THEN Number(CZero)
    ELSE IF coeff = CZero /\ Len(rest) = 1 THEN rest[1]
    ELSE IF coeff = CZero THEN Node("Add", <<>>, CZero, rest)
    ELSE IF rest = <<>> THEN Number(coeff)
    ELSE Node("Add", <<>>, CZero, <<Number(coeff)>> \o rest)
AddFlat(flat) == AddOf(SumNumbers(flat), SelectSeq(flat, NotNumber))
\* Add(*args): nested sums are flattened and the numbers are added up
Add(args) == AddFlat(FlattenArgs("Add", args))

\* the product of a number and of factors that are not numbers
MulOf(coeff, rest) ==
    IF coeff = CZero THEN Number(CZero)
    ELSE IF coeff = COne /\ rest = <<>> THEN Number(COne)
    ELSE IF coeff = COne /\ Len(rest) = 1 THEN rest[1]
    ELSE IF coeff = COne THEN Node("Mul", <<>>, CZero, rest)
    ELSE IF rest = <<>> THEN Number(coeff)
    ELSE Node("Mul", <<>>, CZero, <<Number(coeff)>> \o rest)
MulFlat(flat) == MulOf(ProductNumbers(flat), SelectSeq(flat, NotNumber))
\* Mul(*args): nested products are flattened and the numbers are multiplied
Mul(args) == MulFlat(FlattenArgs("Mul", args))

\* A power that is not evaluated: base and exponent are kept as they are.
PowUnevaluated(b, e) == Node("Pow", <<>>, CZero, <<b, e>>)

\* A power whose evaluation of numbers is wrong: base times exponent.
PowAsProduct(b, e) ==
    IF IsNumber(b) /\ IsNumber(e) THEN Number(CMul(b.val, e.val))
    ELSE Node("Pow", <<>>, CZero, <<b, e>>)

\* Pow(b, e): a number to an integer power is evaluated
Pow(b, e) ==
    IF IsNumber(e) /\ e.val = COne THEN b
    ELSE IF IsNumber(e) /\ e.val = CZero THEN Number(COne)
    ELSE IF IsNumber(b) /\ IsNumber(e) /\ IsInteger(e.val)
         THEN Number(CPowInt(b.val, e.val.re))
    ELSE Node("Pow", <<>>, CZero, <<b, e>>)

\* Python's operators on expressions
Times(a, b) == Mul(<<a, b>>)
Minus(a, b) == Add(<<a, Mul(<<Number(Integer(-1)), b>>)>>)
Over(a, b) == Mul(<<a, Pow(b, Number(Integer(-1)))>>)

RECURSIVE FreeSymbols(_)
FreeSymbols(e) ==
    IF e.op = "Symbol" THEN {e.name}
    ELSE UNION {FreeSymbols(e.args[i]) : i \in 1..Len(e.args)}

RECURSIVE CountNodes(_)
RECURSIVE SumCounts(_)
SumCounts(args) ==
    IF args = <<>> THEN 0 ELSE CountNodes(Head(args)) + SumCounts(Tail(args))
CountNodes(e) == 1 + SumCounts(e.args)

\* every subtree of e, e included
RECURSIVE Subtrees(_)
Subtrees(e) == {e} \cup UNION {Subtrees(e.args[i]) : i \in 1..Len(e.args)}

(* ---------------------------------------------------------------------- *)
(* Substitution: expr.subs(mapping) and expr.xreplace(mapping) rebuild the *)
(* tree bottom-up through the node constructors, which re-evaluate         *)
(* ---------------------------------------------------------------------- *)
\* A substitution that does not descend into powers.
RECURSIVE SubsSkippingPowers(_, _)
SubsSkippingPowers(e, mapping) ==
    LET newargs == Tuple([i \in 1..Len(e.args) |-> SubsSkippingPowers(e.args[i], mapping)])
    IN CASE e.op = "Symbol" ->
              IF e.name \in DOMAIN mapping THEN Number(mapping[e.name]) ELSE e
         [] e.op = "Add" -> Add(newargs)
         [] e.op = "Mul" -> Mul(newargs)
         [] OTHER -> e

RECURSIVE Subs(_, _)
Subs(e, mapping) ==
    LET newargs == Tuple([i \in 1..Len(e.args) |-> Subs(e.args[i], mapping)])
    IN CASE e.op = "Symbol" ->
              IF e.name \in DOMAIN mapping THEN Number(mapping[e.name]) ELSE e
         [] e.op = "Add" -> Add(newargs)
         [] e.op = "Mul" -> Mul(newargs)
         [] e.op = "Pow" -> Pow(newargs[1], newargs[2])
         [] e.op = "RelativisticBreitWigner" -> Node(e.op, <<>>, CZero, newargs)
         [] OTHER -> e

(* ---------------------------------------------------------------------- *)
(* Code generation: the printer walks the tree and emits code, here the    *)
(* operations in evaluation (postfix) order                                *)
(* ---------------------------------------------------------------------- *)
Token(t, name, val, n) == [t |-> t, name |-> name, val |-> val, n |-> n]

RECURSIVE PrintCode(_)
RECURSIVE PrintArgs(_)
PrintArgs(args) ==
    IF args = <<>> THEN <<>> ELSE PrintCode(Head(args)) \o PrintArgs(Tail(args))
PrintCode(e) ==
    CASE e.op = "Symbol" -> <<Token("load", e.name, CZero, 0)>>
      [] e.op = "Number" -> <<Token("const", <<>>, e.val, 0)>>
      [] e.op = "ImaginaryUnit" -> <<Token("const", <<>>, CI, 0)>>
      [] e.op = "Add" -> PrintArgs(e.args) \o <<Token("add", <<>>, CZero, Len(e.args))>>
      [] e.op = "Mul" -> PrintArgs(e.args) \o <<Token("mul", <<>>, CZero, Len(e.args))>>
      [] e.op = "Pow" -> PrintArgs(e.args) \o <<Token("pow", <<>>, CZero, 2)>>
      [] OTHER -> <<Token("raise", <<>>, CZero, 0)>>

\* the function that was not generated yet
NoFunction == [args |-> <<>>, code |-> <<>>]

\* sp.lambdify(args, expr): a function of the positional arguments args
Lambdify(args, expr) == [args |-> args, code |-> PrintCode(expr)]

(* ---------------------------------------------------------------------- *)
(* Array values and the element-wise execution of generated code.  Every   *)
(* element carries its value v and a tangent t (forward-mode derivative).  *)
(* ---------------------------------------------------------------------- *)
Dual(v, t) == [v |-> v, t |-> t]
Const(v) == Dual(v, CZero)

DAdd(x, y) == Dual(CAdd(x.v, y.v), CAdd(x.t, y.t))
DMul(x, y) ==
    Dual(CMul(x.v, y.v),
         IF x.t = CZero /\ y.t = CZero THEN CZero
         ELSE CAdd(CMul(x.t, y.v), CMul(x.v, y.t)))
\* d(x**n) = n x**(n-1) dx
DPow(x, n) ==
    IF n = 0 THEN Const(COne)
    ELSE Dual(CPowInt(x.v, n),
              IF x.t = CZero THEN CZero
              ELSE CMul(CMul(Integer(n), CPowInt(x.v, n - 1)), x.t))

Scalar(d) == [arr |-> FALSE, data |-> <<d>>]
Array(ds) == [arr |-> TRUE, data |-> ds]
\* the value of an operation that raised
Raised == [arr |-> FALSE, data |-> <<>>]

Compatible(x, y) ==
    /\ x # Raised /\ y # Raised
    /\ \/ Len(x.data) = Len(y.data)
       \/ Len(x.data) = 1
       \/ Len(y.data) = 1

\* An element access that ignores the index.
ElemFirst(x, k) == x.data[1]

Elem(x, k) == IF Len(x.data) = 1 THEN x.data[1] ELSE x.data[k]

\* the k-th element of the result depends on the k-th elements only
AddArrays(x, y) ==
    IF ~Compatible(x, y) THEN Raised
    ELSE LET n == IF Len(x.data) = 1 THEN Len(y.data) ELSE Len(x.data)
         IN [arr |-> x.arr \/ y.arr,
             data |-> Tuple([k \in 1..n |-> DAdd(Elem(x, k), Elem(y, k))])]

MulArrays(x, y) ==
    IF ~Compatible(x, y) THEN Raised
    ELSE LET n == IF Len(x.data) = 1 THEN Len(y.data) ELSE Len(x.data)
         IN [arr |-> x.arr \/ y.arr,
             data |-> Tuple([k \in 1..n |-> DMul(Elem(x, k), Elem(y, k))])]

PowArrays(x, y) ==
    IF x = Raised \/ y = Raised \/ y.arr \/ ~IsInteger(y.data[1].v) THEN Raised
    ELSE [arr |-> x.arr,
          data |-> Tuple([k \in 1..Len(x.data) |-> DPow(x.data[k], y.data[1].v.re)])]

RECURSIVE FoldAdd(_)
FoldAdd(vals) ==
    IF Len(vals) = 1 THEN vals[1]
    ELSE AddArrays(FoldAdd(SubSeq(vals, 1, Len(vals) - 1)), vals[Len(vals)])

RECURSIVE FoldMul(_)
FoldMul(vals) ==
    IF Len(vals) = 1 THEN vals[1]
    ELSE MulArrays(FoldMul(SubSeq(vals, 1, Len(vals) - 1)), vals[Len(vals)])

\* one instruction of the generated code on the operand stack
Step(tok, stack, env) ==
    LET m == Len(stack)
        below == SubSeq(stack, 1, m - tok.n)
        top == SubSeq(stack, m - tok.n + 1, m)
    IN CASE tok.t = "load" ->
              Append(stack, IF tok.name \in DOMAIN env THEN env[tok.name] ELSE Raised)
         [] tok.t = "const" -> Append(stack, Scalar(Const(tok.val)))
         [] tok.t = "add" -> Append(below, FoldAdd(top))
         [] tok.t = "mul" -> Append(below, FoldMul(top))
         [] tok.t = "pow" -> Append(below, PowArrays(top[1], top[2]))
         [] OTHER -> Append(stack, Raised)

RECURSIVE RunCode(_, _, _, _)
RunCode(code, i, stack, env) ==
    IF i > Len(code) THEN stack[Len(stack)]
    ELSE RunCode(code, i + 1, Step(code[i], stack, env), env)

\* f(*values): the arguments are bound by position
CallFunction(f, values) ==
    IF Len(values) # Len(f.args) THEN Raised
    ELSE RunCode(f.code, 1, <<>>,
                 [name \in {f.args[i] : i \in 1..Len(f.args)} |->
                     values[CHOOSE i \in 1..Len(f.args) : f.args[i] = name]])

Values(x) == Tuple([k \in 1..Len(x.data) |-> x.data[k].v])
Tangents(x) == Tuple([k \in 1..Len(x.data) |-> x.data[k].t])

(* ---------------------------------------------------------------------- *)
(* The formula itself: the value of an expression at one point             *)
(* ---------------------------------------------------------------------- *)
RECURSIVE Evaluate(_, _)
RECURSIVE EvaluateSum(_, _)
RECURSIVE EvaluateProduct(_, _)
EvaluateSum(args, point) ==
    IF args = <<>> THEN CZero
    ELSE CAdd(Evaluate(Head(args), point), EvaluateSum(Tail(args), point))
EvaluateProduct(args, point) ==
    IF args = <<>> THEN COne
    ELSE CMul(Evaluate(Head(args), point), EvaluateProduct(Tail(args), point))
Evaluate(e, point) ==
    CASE e.op = "Symbol" -> point[e.name]
      [] e.op = "Number" -> e.val
      [] e.op = "ImaginaryUnit" -> CI
      [] e.op = "Add" -> EvaluateSum(e.args, point)
      [] e.op = "Mul" -> EvaluateProduct(e.args, point)
      [] e.op = "Pow" -> CPowInt(Evaluate(e.args[1], point), Evaluate(e.args[2], point).re)
      [] OTHER -> NaN

(* ---------------------------------------------------------------------- *)
(* The partial derivative of a formula, by the rules of calculus           *)
(* ---------------------------------------------------------------------- *)
RECURSIVE Derivative(_, _)
RECURSIVE ProductRule(_, _, _)
\* the sum over i >= k of the product of args with args[i] differentiated
ProductRule(args, k, x) ==
    IF k > Len(args) THEN <<>>
    ELSE <<Mul(Tuple([i \in 1..Len(args) |->
                         IF i = k THEN Derivative(args[i], x) ELSE args[i]]))>>
         \o ProductRule(args, k + 1, x)
Derivative(e, x) ==
    CASE e.op = "Symbol" -> Number(IF e.name = x THEN COne ELSE CZero)
      [] e.op = "Add" -> Add(Tuple([i \in 1..Len(e.args) |-> Derivative(e.args[i], x)]))
      [] e.op = "Mul" -> Add(ProductRule(e.args, 1, x))
      [] e.op = "Pow" ->
           Mul(<<e.args[2],
                 Pow(e.args[1], Number(CAdd(e.args[2].val, Integer(-1)))),
                 Derivative(e.args[1], x)>>)
      [] OTHER -> Number(CZero)

(* ---------------------------------------------------------------------- *)
(* State: the namespace of the kernel that runs one notebook               *)
(* ---------------------------------------------------------------------- *)
VARIABLES
    notebook,           \* the notebook this kernel runs
    cell,               \* the next cell of the notebook to run
    log,                \* the pipeline steps taken so far, in order
    \* docs/symbolics.ipynb (expression is a name of docs/report/022.ipynb too)
    expression,
    substituted_expr,
    full_func,
    substituted_func,
    call,               \* the last call of a generated function
    \* docs/report/022.ipynb
    model,
    unfolded_expression,
    substituted_expression,
    fixed_intensity_func,
    data,
    free_symbols,
    fixed_symbols,
    intensity_func,
    arg_names,
    data_columns,
    parameter_values,
    func_with_data_inserted,
    gradient_func,
    gradient_values,
    estimator_gradient,
    PROGRESS_BAR,       \* the tqdm bar that the name is bound to
    optimizer,          \* iminuit.Minuit(estimator_with_progress_bar, ...)
    autodiff_optimizer, \* the same with grad=estimator_gradient
    evaluations,        \* the bars created and the calls of estimator that ended
    \* the pytest session that tests the notebooks
    session,            \* "collect", "run", "finished"
    selected,           \* the collected notebooks that were not deselected
    results,            \* the outcome of each test that ended
    run,                \* the notebook under execution
    \* docs/adr/002/composition.ipynb and docs/adr/002/function.ipynb
    dynamics,           \* the DynamicsExpression in hand
    subclass,           \* the subclass of DynamicsFunction in hand
    returned,           \* what the last operation returned or raised
    \* the samples of docs/symbolics.ipynb
    a_lst,
    b_lst,
    c_lst,
    array_a,            \* a = np.array(a_lst)
    array_b,            \* b = np.array(b_lst)
    array_c,            \* c = a + b**2
    \* docs/report/009.ipynb
    globals,            \* the notebook-level names n_channels, R, m_a, m_b
    matrix,             \* what relativistic_k_matrix built in its last call
    imag_real,          \* the value of the radio buttons
    figure,             \* the axes of the figure
    \* docs/report/019.ipynb
    frame,              \* the locals of mandelbrot() and the place in its body
    img,                \* the image under construction
    assigned            \* the elements of img that were stored, in order

symVars == <<substituted_expr, full_func, substituted_func, call>>
modelVars == <<model, unfolded_expression, substituted_expression, fixed_intensity_func>>
fitVars == <<data, free_symbols, fixed_symbols, intensity_func>>
gradVars == <<arg_names, data_columns, parameter_values, func_with_data_inserted,
              gradient_func, gradient_values, estimator_gradient>>
pipelineVars == <<expression, symVars, modelVars, fitVars, gradVars>>
adrVars == <<dynamics, subclass>>
sampleVars == <<a_lst, b_lst, c_lst, array_a, array_b, array_c>>
kmatrixVars == <<globals, matrix, imag_real, figure>>
\* the names of the notebooks other than symbolics and report 022
optimizeVars == <<PROGRESS_BAR, optimizer, autodiff_optimizer, evaluations>>
juliaVars == <<frame, img, assigned>>
moreVars == <<adrVars, returned, sampleVars, kmatrixVars, optimizeVars, juliaVars>>
kernelVars == <<notebook, cell, log, pipelineVars, moreVars>>
testVars == <<session, selected, results, run>>
otherVars == <<testVars, moreVars>>
vars == <<kernelVars, testVars>>

\* the code cells of the pipeline, in the order of the notebook; a cell is
\* named after the last name it binds
Cells ==
    [symbolics |-> <<"expression", "substituted_expr", "full_func", "substituted_func",
                     "end">>,
     report022 |-> <<"model", "fixed_intensity_func", "data", "fixed_symbols",
                     "intensity_func", "data_columns", "parameter_values",
                     "gradient_func", "gradient_values", "optimizer",
                     "estimator_gradient", "time_estimator_gradient",
                     "autodiff_optimizer", "end">>,
     composition |-> <<"bw_decay_f0", "end">>,
     function |-> <<"RelativisticBreitWigner", "end">>,
     samples |-> <<"a_lst", "c_lst", "array_a", "array_c", "end">>,
     report009 |-> <<"n_channels", "end">>,
     report019 |-> <<"mandelbrot", "end">>]

CellIndex(nb, c) == CHOOSE i \in 1..Len(Cells[nb]) : Cells[nb][i] = c
\* the cell that runs after cell c
After(nb, c) == Cells[nb][CellIndex(nb, c) + 1]
\* cell c of the notebook has run
Ran(nb, c) == notebook = nb /\ CellIndex(nb, cell) > CellIndex(nb, c)

\* a step of the pipeline: op produced dst from src, whose value was of kind
Event(op, src, dst, kind) == [op |-> op, src |-> src, dst |-> dst, kind |-> kind]

\* what a value of the namespace is: an expression graph or generated code
KindOf(value) == IF "op" \in DOMAIN value THEN "graph" ELSE "function"

(* ---------------------------------------------------------------------- *)
(* docs/symbolics.ipynb                                                    *)
(* ---------------------------------------------------------------------- *)
s == <<"s">>
m0 == <<"m", "0">>
Gamma0 == <<"G", "a", "m", "m", "a", "0">>
g == <<"g">>

\* g * m0 * Gamma0 / (m0**2 - s - sp.I * Gamma0 * m0)
BreitWigner ==
    Over(Times(Times(Symbol(g), Symbol(m0)), Symbol(Gamma0)),
         Minus(Minus(Pow(Symbol(m0), Number(Integer(2))), Symbol(s)),
               Times(Times(ImaginaryUnit, Symbol(Gamma0)), Symbol(m0))))

\* {m0: 0.980, Gamma0: 0.06, g: 1}
Substitutions ==
    [name \in {m0, Gamma0, g} |->
        IF name = m0 THEN Rat(980, 1000)
        ELSE IF name = Gamma0 THEN Rat(6, 100)
        ELSE Integer(1)]

NoCall == [func |-> "", args |-> <<>>, out |-> Raised]

SymInit ==
    /\ expression = Undefined
    /\ substituted_expr = Undefined
    /\ full_func = NoFunction
    /\ substituted_func = NoFunction
    /\ call = NoCall

\* expression = g * m0 * Gamma0 / (m0**2 - s - sp.I * Gamma0 * m0)
BuildExpression ==
    /\ notebook = "symbolics" /\ cell = "expression"
    /\ expression' = BreitWigner
    /\ log' = Append(log, Event("build", "source", "expression", KindOf(BreitWigner)))
    /\ cell' = After(notebook, cell)
    /\ UNCHANGED <<notebook, substituted_expr, full_func, substituted_func, call,
                   modelVars, fitVars, gradVars, otherVars>>

\* A substitution in place: the graph bound to expression is itself rewritten.
SubstituteExpressionInPlace ==
    /\ notebook = "symbolics" /\ cell = "substituted_expr"
    /\ expression' = Subs(expression, Substitutions)
    /\ substituted_expr' = expression'
    /\ log' = Append(log, Event("subs", "expression", "substituted_expr", KindOf(expression)))
    /\ cell' = After(notebook, cell)
    /\ UNCHANGED <<notebook, full_func, substituted_func, call,
                   modelVars, fitVars, gradVars, otherVars>>

\* substituted_expr = expression.subs({m0: 0.980, Gamma0: 0.06, g: 1})
SubstituteExpression ==
    /\ notebook = "symbolics" /\ cell = "substituted_expr"
    /\ substituted_expr' = Subs(expression, Substitutions)
    /\ log' = Append(log, Event("subs", "expression", "substituted_expr", KindOf(expression)))
    /\ cell' = After(notebook, cell)
    /\ UNCHANGED <<notebook, expression, full_func, substituted_func, call,
                   modelVars, fitVars, gradVars, otherVars>>

\* full_func = sp.lambdify(args=(s, m0, Gamma0, g), expr=expression, modules="numpy")
GenerateFullFunc ==
    /\ notebook = "symbolics" /\ cell = "full_func"
    /\ full_func' = Lambdify(<<s, m0, Gamma0, g>>, expression)
    /\ log' = Append(log, Event("codegen", "expression", "full_func", KindOf(expression)))
    /\ cell' = After(notebook, cell)
    /\ UNCHANGED <<notebook, expression, substituted_expr, substituted_func, call,
                   modelVars, fitVars, gradVars, otherVars>>

\* substituted_func = sp.lambdify(args=s, expr=substituted_expr, modules="numpy")
GenerateSubstitutedFunc ==
    /\ notebook = "symbolics" /\ cell = "substituted_func"
    /\ substituted_func' = Lambdify(<<s>>, substituted_expr)
    /\ log' = Append(log, Event("codegen", "substituted_expr", "substituted_func",
                                KindOf(substituted_expr)))
    /\ cell' = After(notebook, cell)
    /\ UNCHANGED <<notebook, expression, substituted_expr, full_func, call,
                   modelVars, fitVars, gradVars, otherVars>>

\* the arrays a generated function is called with
RECURSIVE SeqsOfLen(_, _)
SeqsOfLen(S, n) ==
    IF n = 0 THEN {<<>>}
    ELSE {Append(q, x) : q \in SeqsOfLen(S, n - 1), x \in S}
ArraysOver(S) == UNION {SeqsOfLen(S, n) : n \in 0..MaxLen}

RealArray(xs) == Array(Tuple([k \in 1..Len(xs) |-> Const(Integer(xs[k]))]))
SArrays == {RealArray(xs) : xs \in ArraysOver(0..MaxS)}
\* parameter values passed to full_func: the substituted ones and others
ParameterValues(name) == {Substitutions[name], Integer(2)}
ParameterScalars(name) == {Scalar(Const(v)) : v \in ParameterValues(name)}
\* an array of parameter values, one per element of the array sv
ParameterArrays(name, sv) ==
    {Array(Tuple([k \in 1..Len(vs) |-> Const(vs[k])]))
     : vs \in SeqsOfLen(ParameterValues(name), Len(sv.data))}

\* full_func(s, m0, Gamma0, g) on an array s.  A generated function is pure,
\* so the model keeps one call of it per run.
CallFullFunc ==
    /\ notebook = "symbolics" /\ cell = "end" /\ call = NoCall
    /\ \E sv \in SArrays :
       \E mv \in ParameterScalars(m0) \cup ParameterArrays(m0, sv),
          gammav \in ParameterScalars(Gamma0), gv \in ParameterScalars(g) :
          call' = [func |-> "full_func", args |-> <<sv, mv, gammav, gv>>,
                   out |-> CallFunction(full_func, <<sv, mv, gammav, gv>>)]
    /\ UNCHANGED <<notebook, cell, log, expression, substituted_expr, full_func,
                   substituted_func, modelVars, fitVars, gradVars, otherVars>>

\* substituted_func(s) on an array s
CallSubstitutedFunc ==
    /\ notebook = "symbolics" /\ cell = "end" /\ call = NoCall
    /\ \E sv \in SArrays :
          call' = [func |-> "substituted_func", args |-> <<sv>>,
                   out |-> CallFunction(substituted_func, <<sv>>)]
    /\ UNCHANGED <<notebook, cell, log, expression, substituted_expr, full_func,
                   substituted_func, modelVars, fitVars, gradVars, otherVars>>

SymNext ==
    \/ BuildExpression
    \/ SubstituteExpression
    \/ GenerateFullFunc
    \/ GenerateSubstitutedFunc
    \/ CallFullFunc
    \/ CallSubstitutedFunc

(* ---------------------------------------------------------------------- *)
(* docs/report/022.ipynb.  The amplitude model is formulated by ampform;   *)
(* it is represented by a small model of the same make: coefficients C,    *)
(* a resonance with mass m, width Gamma and meson radius d, and the        *)
(* kinematic variables m_12 and theta.                                     *)
(* ---------------------------------------------------------------------- *)
C_1 == <<"C", "_", "1">>
C_2 == <<"C", "_", "2">>
Gamma_f0 == <<"G", "a", "m", "m", "a", "_", "f", "0">>
d_f0 == <<"d", "_", "f", "0">>
m_12 == <<"m", "_", "1", "2">>
m_f0 == <<"m", "_", "f", "0">>
theta == <<"t", "h", "e", "t", "a">>

\* sorted(..., key=str) of all names
NameOrder == <<C_1, C_2, Gamma_f0, d_f0, m_12, m_f0, theta>>

SortedNames(S) == LET In(n) == n \in S IN SelectSeq(NameOrder, In)
Reverse(q) == [i \in 1..Len(q) |-> q[Len(q) + 1 - i]]

\* name.startswith(ch)
StartsWith(name, ch) == name # <<>> /\ name[1] = ch

\* a dict: its items in insertion order
Item(k, v) == [key |-> k, value |-> v]
Keys(d) == [i \in 1..Len(d) |-> d[i].key]
DictValues(d) == [i \in 1..Len(d) |-> d[i].value]
KeySet(d) == {d[i].key : i \in 1..Len(d)}
Get(d, k) == d[CHOOSE i \in 1..Len(d) : d[i].key = k].value
AsMapping(d) == [k \in KeySet(d) |-> Get(d, k)]

\* the unevaluated dynamics of the model and the intensity built from it
BreitWignerNode(x, m, w, d) == Node("RelativisticBreitWigner", <<>>, CZero, <<x, m, w, d>>)

ModelExpression ==
    Add(<<Times(Symbol(C_1),
                BreitWignerNode(Symbol(m_12), Symbol(m_f0), Symbol(Gamma_f0), Symbol(d_f0))),
          Times(Symbol(C_2), Symbol(theta))>>)

\* expr.doit(): the unevaluated nodes are unfolded into plain algebra
RECURSIVE Doit(_)
Doit(e) ==
    LET a == Tuple([i \in 1..Len(e.args) |-> Doit(e.args[i])])
    IN CASE e.op = "Add" -> Add(a)
         [] e.op = "Mul" -> Mul(a)
         [] e.op = "Pow" -> Pow(a[1], a[2])
         [] e.op = "RelativisticBreitWigner" ->
              Over(Times(a[2], a[3]),
                   Minus(Minus(Pow(a[2], Number(Integer(2))), Pow(a[1], Number(Integer(2)))),
                         Times(Times(Times(ImaginaryUnit, a[2]), a[3]), a[4])))
         [] OTHER -> e

\* model.parameter_defaults: the order of the dict and the mass vary
ParameterDefaults ==
    UNION {{<<Item(C_1, Integer(1)), Item(C_2, Integer(1)), Item(Gamma_f0, Rat(1, 2)),
              Item(d_f0, Integer(1)), Item(m_f0, mass)>>,
            <<Item(m_f0, mass), Item(d_f0, Integer(1)), Item(Gamma_f0, Rat(1, 2)),
              Item(C_2, Integer(1)), Item(C_1, Integer(1))>>}
           : mass \in {Integer(1), Integer(2)}}

KinematicVariables == {m_12, theta}

\* the events of a data sample
DataPoints == {[m |-> 0, th |-> 1], [m |-> 1, th |-> 2], [m |-> 3, th |-> 1]}
DataSamples ==
    {[name \in KinematicVariables |->
        Array(Tuple([i \in 1..Len(pts) |->
                       Const(Integer(IF name = m_12 THEN pts[i].m ELSE pts[i].th))]))]
     : pts \in ArraysOver(DataPoints)}

\* create_function / create_parametrized_function: the generated function
\* with the order of its arguments
BackendFunction(order, expr, parameters) ==
    [function |-> Lambdify(order, expr), argument_order |-> order,
     parameters |-> parameters]

\* the orders of the arguments of a parametrized function: the data
\* arguments come first
ArgumentOrders(symbols, parameters) ==
    LET variables == SortedNames(symbols \ parameters)
        params == SortedNames(symbols \cap parameters)
    IN {variables \o params, Reverse(variables) \o Reverse(params)}

\* Partial(func, *bound)
Partial(func, bound) == [func |-> func, bound |-> bound]

\* A partial application that puts the bound values after the passed ones.
PartialArgumentsBoundLast(p, values) == values \o p.bound

\* the positional arguments of func in p(*values): the bound values come first
PartialArguments(p, values) == p.bound \o values
CallPartial(p, values) == CallFunction(p.func, PartialArguments(p, values))

\* A range that starts at one.
RangeFromOne(n) == [i \in 1..n |-> i]

\* range(n)
Range(n) == [i \in 1..n |-> i - 1]

\* jax.jacfwd(fun, argnums)
JacFwd(fun, argnums) == [of |-> fun, argnums |-> argnums]

\* gradient_func(*xs): one forward pass per entry of argnums, with a unit
\* tangent on that argument
CallGradient(gradient, xs) ==
    [j \in 1..Len(gradient.argnums) |->
        Tangents(CallPartial(gradient.of,
            [i \in 1..Len(xs) |->
                Scalar(Dual(xs[i], IF i - 1 = gradient.argnums[j] THEN COne ELSE CZero))]))]

\* def estimator(args): a Python function over the generated function
Estimator(data_func) == [def |-> "estimator", data_func |-> data_func]

\* complex(x).real
RealPart(x) == CNum(x.re, 0, x.den)

NoModel == [expression |-> Undefined, parameter_defaults |-> <<>>,
            kinematic_variables |-> {}]
NoBackendFunction == [function |-> NoFunction, argument_order |-> <<>>, parameters |-> <<>>]
NoGradient == [of |-> Partial(NoFunction, <<>>), argnums |-> <<>>]

Init022 ==
    /\ model = NoModel
    /\ unfolded_expression = Undefined
    /\ substituted_expression = Undefined
    /\ fixed_intensity_func = NoBackendFunction
    /\ data = <<>>
    /\ free_symbols = <<>>
    /\ fixed_symbols = <<>>
    /\ intensity_func = NoBackendFunction
    /\ arg_names = <<>>
    /\ data_columns = <<>>
    /\ parameter_values = <<>>
    /\ func_with_data_inserted = Partial(NoFunction, <<>>)
    /\ gradient_func = NoGradient
    /\ gradient_values = <<>>
    /\ estimator_gradient = JacFwd(Estimator(Partial(NoFunction, <<>>)), <<>>)

AtCell(nb, c) == notebook = nb /\ cell = c

\* model = model_builder.formulate()
FormulateModel ==
    /\ AtCell("report022", "model")
    /\ \E defaults \in ParameterDefaults :
          model' = [expression |-> ModelExpression, parameter_defaults |-> defaults,
                    kinematic_variables |-> KinematicVariables]
    /\ log' = Append(log, Event("build", "source", "model.expression", KindOf(ModelExpression)))
    /\ cell' = After(notebook, cell)
    /\ UNCHANGED <<notebook, expression, symVars, unfolded_expression,
                   substituted_expression, fixed_intensity_func, fitVars, gradVars, otherVars>>

\* unfolded_expression = model.expression.doit()
\* substituted_expression = unfolded_expression.xreplace(model.parameter_defaults)
\* fixed_intensity_func = create_function(substituted_expression, backend="jax")
CreateFixedIntensityFunc ==
    /\ AtCell("report022", "fixed_intensity_func")
    /\ unfolded_expression' = Doit(model.expression)
    /\ substituted_expression' =
          Subs(unfolded_expression', AsMapping(model.parameter_defaults))
    /\ fixed_intensity_func' =
          BackendFunction(SortedNames(FreeSymbols(substituted_expression')),
                          substituted_expression', <<>>)
    /\ log' = log \o
          <<Event("doit", "model.expression", "unfolded_expression", KindOf(model.expression)),
            Event("subs", "unfolded_expression", "substituted_expression",
                  KindOf(unfolded_expression')),
            Event("codegen", "substituted_expression", "fixed_intensity_func",
                  KindOf(substituted_expression'))>>
    /\ cell' = After(notebook, cell)
    /\ UNCHANGED <<notebook, expression, symVars, model, fitVars, gradVars, otherVars>>

\* data = helicity_transformer(data_momenta)
TransformData ==
    /\ AtCell("report022", "data")
    /\ data' \in DataSamples
    /\ cell' = After(notebook, cell)
    /\ UNCHANGED <<notebook, log, expression, symVars, modelVars, free_symbols,
                   fixed_symbols, intensity_func, gradVars, otherVars>>

NotMesonRadius(item) == ~StartsWith(item.key, "d")
IsCoefficient(item) == StartsWith(item.key, "C")

\* A cell that pops no coefficient from free_symbols.
SelectFreeSymbolsKeepingCoefficients ==
    /\ AtCell("report022", "fixed_symbols")
    /\ LET free == SelectSeq(model.parameter_defaults, NotMesonRadius)
           Fixed(item) == item.key \notin KeySet(free)
       IN /\ free_symbols' = free
          /\ fixed_symbols' = SelectSeq(model.parameter_defaults, Fixed)
    /\ cell' = After(notebook, cell)
    /\ UNCHANGED <<notebook, log, expression, symVars, modelVars, data, intensity_func,
                   gradVars, otherVars>>

\* free_symbols = {... if not symbol.name.startswith("d")}
\* some_coefficient = next(s for s in free_symbols if s.name.startswith("C"))
\* free_symbols.pop(some_coefficient)
\* fixed_symbols = {... if symbol not in free_symbols}
SelectFreeSymbols ==
    /\ AtCell("report022", "fixed_symbols")
    /\ LET candidates == SelectSeq(model.parameter_defaults, NotMesonRadius)
           some_coefficient == SelectSeq(candidates, IsCoefficient)[1].key
           Kept(item) == item.key # some_coefficient
           free == SelectSeq(candidates, Kept)
           Fixed(item) == item.key \notin KeySet(free)
       IN /\ free_symbols' = free
          /\ fixed_symbols' = SelectSeq(model.parameter_defaults, Fixed)
    /\ cell' = After(notebook, cell)
    /\ UNCHANGED <<notebook, log, expression, symVars, modelVars, data, intensity_func,
                   gradVars, otherVars>>

\* A cell that generates the function first and substitutes afterwards.
CreateIntensityFuncBeforeXreplace ==
    /\ AtCell("report022", "intensity_func")
    /\ \E order \in ArgumentOrders(FreeSymbols(unfolded_expression), KeySet(free_symbols)) :
          intensity_func' = BackendFunction(order, unfolded_expression, free_symbols)
    /\ expression' = Subs(unfolded_expression, AsMapping(fixed_symbols))
    /\ log' = log \o
          <<Event("codegen", "expression", "intensity_func", KindOf(unfolded_expression)),
            Event("subs", "unfolded_expression", "expression", KindOf(unfolded_expression))>>
    /\ cell' = After(notebook, cell)
    /\ UNCHANGED <<notebook, symVars, modelVars, data, free_symbols, fixed_symbols,
                   gradVars, otherVars>>

\* expression = unfolded_expression
\* expression = expression.xreplace(fixed_symbols)
\* intensity_func = create_parametrized_function(expression, parameters=free_symbols, ...)
CreateIntensityFunc ==
    /\ AtCell("report022", "intensity_func")
    /\ expression' = Subs(unfolded_expression, AsMapping(fixed_symbols))
    /\ \E order \in ArgumentOrders(FreeSymbols(expression'), KeySet(free_symbols)) :
          intensity_func' = BackendFunction(order, expression', free_symbols)
    /\ log' = log \o
          <<Event("subs", "unfolded_expression", "expression", KindOf(unfolded_expression)),
            Event("codegen", "expression", "intensity_func", KindOf(expression'))>>
    /\ cell' = After(notebook, cell)
    /\ UNCHANGED <<notebook, symVars, modelVars, data, free_symbols, fixed_symbols,
                   gradVars, otherVars>>

\* zip(arg_names, intensity_func.argument_order)
ZipArguments(names, order) ==
    [i \in 1..Len(names) |-> [arg |-> names[i], key |-> order[i]]]

\* {arg: data[key] for arg, key in zip(arg_names, argument_order) if key in data}
DataColumnsOf(names, order, columns) ==
    LET InData(z) == z.key \in DOMAIN columns
        zipped == SelectSeq(ZipArguments(names, order), InData)
    IN [i \in 1..Len(zipped) |-> Item(zipped[i].arg, columns[zipped[i].key])]

\* {arg: complex(parameters[key]).real
\*  for arg, key in zip(arg_names, argument_order) if key in parameters}
ParameterValuesOf(names, order, parameters) ==
    LET InParameters(z) == z.key \in KeySet(parameters)
        zipped == SelectSeq(ZipArguments(names, order), InParameters)
    IN [i \in 1..Len(zipped) |->
           Item(zipped[i].arg, RealPart(Get(parameters, zipped[i].key)))]

\* arg_names = tuple(sig.parameters)
\* data_columns = {arg: data[key] for arg, key in zip(...) if key in data}
BindDataColumns ==
    /\ AtCell("report022", "data_columns")
    /\ arg_names' = intensity_func.function.args
    /\ data_columns' = DataColumnsOf(arg_names', intensity_func.argument_order, data)
    /\ cell' = After(notebook, cell)
    /\ UNCHANGED <<notebook, log, expression, symVars, modelVars, fitVars,
                   parameter_values, func_with_data_inserted, gradient_func,
                   gradient_values, estimator_gradient, otherVars>>

\* parameter_values = {arg: complex(intensity_func.parameters[key]).real
\*                     for arg, key in zip(...) if key in intensity_func.parameters}
BindParameterValues ==
    /\ AtCell("report022", "parameter_values")
    /\ parameter_values' = ParameterValuesOf(arg_names, intensity_func.argument_order,
                                             intensity_func.parameters)
    /\ cell' = After(notebook, cell)
    /\ UNCHANGED <<notebook, log, expression, symVars, modelVars, fitVars, arg_names,
                   data_columns, func_with_data_inserted, gradient_func,
                   gradient_values, estimator_gradient, otherVars>>

\* A cell in which the differentiation is applied to the expression graph.
CreateGradientFuncOnGraph ==
    /\ AtCell("report022", "gradient_func")
    /\ func_with_data_inserted' = Partial(intensity_func.function, DictValues(data_columns))
    /\ gradient_func' = JacFwd(Partial(NoFunction, <<>>), Range(Len(parameter_values)))
    /\ log' = Append(log, Event("diff", "expression", "gradient_func", KindOf(expression)))
    /\ cell' = After(notebook, cell)
    /\ UNCHANGED <<notebook, expression, symVars, modelVars, fitVars, arg_names,
                   data_columns, parameter_values, gradient_values, estimator_gradient,
                   otherVars>>

\* func_with_data_inserted = Partial(intensity_func.function, *data_columns.values())
\* gradient_func = jax.jacfwd(func_with_data_inserted, argnums=range(len(parameter_values)))
CreateGradientFunc ==
    /\ AtCell("report022", "gradient_func")
    /\ func_with_data_inserted' = Partial(intensity_func.function, DictValues(data_columns))
    /\ gradient_func' = JacFwd(func_with_data_inserted', Range(Len(parameter_values)))
    /\ log' = Append(log, Event("diff", "func_with_data_inserted", "gradient_func",
                                KindOf(func_with_data_inserted')))
    /\ cell' = After(notebook, cell)
    /\ UNCHANGED <<notebook, expression, symVars, modelVars, fitVars, arg_names,
                   data_columns, parameter_values, gradient_values, estimator_gradient,
                   otherVars>>

\* gradient_values = gradient_func(*parameter_values.values())
ComputeGradientValues ==
    /\ AtCell("report022", "gradient_values")
    /\ gradient_values' = CallGradient(gradient_func, DictValues(parameter_values))
    /\ cell' = After(notebook, cell)
    /\ UNCHANGED <<notebook, log, expression, symVars, modelVars, fitVars, arg_names,
                   data_columns, parameter_values, func_with_data_inserted,
                   gradient_func, estimator_gradient, otherVars>>

\* estimator_gradient = jax.jacfwd(estimator)
CreateEstimatorGradient ==
    /\ AtCell("report022", "estimator_gradient")
    /\ estimator_gradient' = JacFwd(Estimator(func_with_data_inserted), Range(1))
    /\ log' = Append(log, Event("diff", "estimator", "estimator_gradient",
                                KindOf(Estimator(func_with_data_inserted))))
    /\ cell' = After(notebook, cell)
    /\ UNCHANGED <<notebook, expression, symVars, modelVars, fitVars, arg_names,
                   data_columns, parameter_values, func_with_data_inserted,
                   gradient_func, gradient_values, otherVars>>

Next022 ==
    \/ FormulateModel
    \/ CreateFixedIntensityFunc
    \/ TransformData
    \/ SelectFreeSymbols
    \/ CreateIntensityFunc
    \/ BindDataColumns
    \/ BindParameterValues
    \/ CreateGradientFunc
    \/ ComputeGradientValues
    \/ CreateEstimatorGradient

(* ---------------------------------------------------------------------- *)
(* Python values that are no expressions, and what an operation gives      *)
(* ---------------------------------------------------------------------- *)
TupleOf(items) == [type |-> "tuple", items |-> items]
PyFunction(name, arity) == [type |-> "function", name |-> name, arity |-> arity]
None == [type |-> "None"]

\* *value: a tuple can be unpacked, a sympy expression cannot
IsIterable(value) == "type" \in DOMAIN value /\ value.type = "tuple"
\* value(...): a function can be called, and so can a Symbol (it gives an
\* undefined function); any other sympy expression cannot
IsCallable(value) ==
    \/ "type" \in DOMAIN value /\ value.type = "function"
    \/ "op" \in DOMAIN value /\ value.op = "Symbol"

\* the operation op on self returned value / raised error
Returned(op, self, value) == [op |-> op, self |-> self, kind |-> "value", value |-> value]
RaisedError(op, self, error) ==
    [op |-> op, self |-> self, kind |-> "error", value |-> [type |-> error]]
NoOutcome == [op |-> "", self |-> None, kind |-> "none", value |-> None]

(* ---------------------------------------------------------------------- *)
(* docs/report/022.ipynb: the two optimizations                            *)
(* ---------------------------------------------------------------------- *)
\* the calls that one migrad() makes to its function, and to its gradient
MaxCalls == 2
\* the points of the parameter space that Minuit tries; 0 is starting_values
MaxPoint == 1
Points == 0..MaxPoint
Arguments(point) == TupleOf(<<point>>)

\* estimator(args): the negative log likelihood at args, over the data that
\* fun holds
CallEstimator(fun, args) == [type |-> "float", of |-> fun.def, at |-> args]

\* tqdm()
tqdm == [n |-> 0, postfix |-> None]
\* A bar that was created with disable=True: update() returns at once.
tqdm_update_disabled(bar) == bar
\* tqdm.update(n=1)
tqdm_update(bar) == [bar EXCEPT !.n = @ + 1]
\* tqdm.set_postfix({"estimator": value})
set_postfix(bar, value) == [bar EXCEPT !.postfix = value]

\* an entry of evaluations
BarCreated == [event |-> "tqdm", by |-> "cell"]
Evaluated(caller) == [event |-> "estimator", by |-> caller]

\* def estimator_with_progress_bar(*args, **kwargs), with the bar that
\* PROGRESS_BAR names when the call is made
estimator_with_progress_bar(bar, fun, args) == [PROGRESS_BAR |-> set_postfix(tqdm_update(bar), CallEstimator(fun, args)), value |-> CallEstimator(fun, args)]

\* iminuit.Minuit(fcn, starting_values, grad=grad, name=...)
Minuit(fcn, grad) == [fcn |-> fcn, grad |-> grad, nfcn |-> 0, ngrad |-> 0, state |-> "created"]
NoMinuit == [fcn |-> "", grad |-> "", nfcn |-> 0, ngrad |-> 0, state |-> "none"]

InitOptimize ==
    /\ PROGRESS_BAR = None
    /\ optimizer = NoMinuit
    /\ autodiff_optimizer = NoMinuit
    /\ evaluations = <<>>

\* PROGRESS_BAR = tqdm(); optimizer = iminuit.Minuit(...); optimizer.migrad()
\* up to the first call that migrad makes
CreateOptimizer ==
    /\ AtCell("report022", "optimizer")
    /\ optimizer.state = "none"
    /\ PROGRESS_BAR' = tqdm
    /\ evaluations' = Append(evaluations, BarCreated)
    /\ optimizer' = [Minuit("estimator_with_progress_bar", "None") EXCEPT !.state = "migrad"]
    /\ UNCHANGED <<notebook, cell, log, pipelineVars, adrVars, returned, sampleVars,
                   kmatrixVars, autodiff_optimizer, juliaVars, testVars>>

\* migrad calls its function at a point
CallFcn ==
    /\ AtCell("report022", "optimizer")
    /\ optimizer.state = "migrad"
    /\ optimizer.nfcn < MaxCalls
    /\ \E point \in Points :
          /\ PROGRESS_BAR' = estimator_with_progress_bar(PROGRESS_BAR, Estimator(func_with_data_inserted), Arguments(point)).PROGRESS_BAR
          /\ returned' = Returned("estimator_with_progress_bar", Arguments(point),
                            estimator_with_progress_bar(PROGRESS_BAR, Estimator(func_with_data_inserted), Arguments(point)).value)
    /\ evaluations' = Append(evaluations, Evaluated("estimator_with_progress_bar"))
    /\ optimizer' = [optimizer EXCEPT !.nfcn = @ + 1]
    /\ UNCHANGED <<notebook, cell, log, pipelineVars, adrVars, sampleVars, kmatrixVars,
                   autodiff_optimizer, juliaVars, testVars>>

\* optimizer.migrad() returns, after at least one call of its function
FinishMigrad ==
    /\ AtCell("report022", "optimizer")
    /\ optimizer.state = "migrad"
    /\ optimizer.nfcn >= 1
    /\ optimizer' = [optimizer EXCEPT !.state = "done"]
    /\ cell' = After(notebook, cell)
    /\ UNCHANGED <<notebook, log, pipelineVars, adrVars, returned, sampleVars, kmatrixVars,
                   PROGRESS_BAR, autodiff_optimizer, evaluations, juliaVars, testVars>>

\* %%time estimator_gradient(tuple(parameter_values.values())): jax.jacfwd
\* runs estimator, which is not jitted, on the traced arguments
TimeEstimatorGradient ==
    /\ AtCell("report022", "time_estimator_gradient")
    /\ evaluations' = Append(evaluations, Evaluated("estimator_gradient"))
    /\ returned' = Returned("estimator_gradient", Arguments(0),
                            JacFwd(CallEstimator(estimator_gradient.of, Arguments(0)),
                                   estimator_gradient.argnums))
    /\ cell' = After(notebook, cell)
    /\ UNCHANGED <<notebook, log, pipelineVars, adrVars, sampleVars, kmatrixVars,
                   PROGRESS_BAR, optimizer, autodiff_optimizer, juliaVars, testVars>>

\* PROGRESS_BAR = tqdm()  # reset
\* autodiff_optimizer = iminuit.Minuit(..., grad=estimator_gradient, ...)
\* autodiff_optimizer.migrad() up to the first call that migrad makes
CreateAutodiffOptimizer ==
    /\ AtCell("report022", "autodiff_optimizer")
    /\ autodiff_optimizer.state = "none"
    /\ PROGRESS_BAR' = tqdm
    /\ evaluations' = Append(evaluations, BarCreated)
    /\ autodiff_optimizer' = [Minuit("estimator_with_progress_bar", "estimator_gradient") EXCEPT !.state = "migrad"]
    /\ UNCHANGED <<notebook, cell, log, pipelineVars, adrVars, returned, sampleVars,
                   kmatrixVars, optimizer, juliaVars, testVars>>

\* migrad calls its function at a point
AutodiffCallFcn ==
    /\ AtCell("report022", "autodiff_optimizer")
    /\ autodiff_optimizer.state = "migrad"
    /\ autodiff_optimizer.nfcn < MaxCalls
    /\ \E point \in Points :
          /\ PROGRESS_BAR' = estimator_with_progress_bar(PROGRESS_BAR, Estimator(func_with_data_inserted), Arguments(point)).PROGRESS_BAR
          /\ returned' = Returned("estimator_with_progress_bar", Arguments(point),
                            estimator_with_progress_bar(PROGRESS_BAR, Estimator(func_with_data_inserted), Arguments(point)).value)
    /\ evaluations' = Append(evaluations, Evaluated("estimator_with_progress_bar"))
    /\ autodiff_optimizer' = [autodiff_optimizer EXCEPT !.nfcn = @ + 1]
    /\ UNCHANGED <<notebook, cell, log, pipelineVars, adrVars, sampleVars, kmatrixVars,
                   optimizer, juliaVars, testVars>>

\* migrad calls grad=estimator_gradient at a point: jax.jacfwd runs estimator
AutodiffCallGrad ==
    /\ AtCell("report022", "autodiff_optimizer")
    /\ autodiff_optimizer.state = "migrad"
    /\ autodiff_optimizer.ngrad < MaxCalls
    /\ \E point \in Points :
          returned' = Returned("estimator_gradient", Arguments(point),
                               JacFwd(CallEstimator(estimator_gradient.of, Arguments(point)),
                                      estimator_gradient.argnums))
    /\ evaluations' = Append(evaluations, Evaluated("estimator_gradient"))
    /\ autodiff_optimizer' = [autodiff_optimizer EXCEPT !.ngrad = @ + 1]
    /\ UNCHANGED <<notebook, cell, log, pipelineVars, adrVars, sampleVars, kmatrixVars,
                   PROGRESS_BAR, optimizer, juliaVars, testVars>>

\* autodiff_optimizer.migrad() returns, after at least one call of its function
FinishAutodiffMigrad ==
    /\ AtCell("report022", "autodiff_optimizer")
    /\ autodiff_optimizer.state = "migrad"
    /\ autodiff_optimizer.nfcn >= 1
    /\ autodiff_optimizer' = [autodiff_optimizer EXCEPT !.state = "done"]
    /\ cell' = After(notebook, cell)
    /\ UNCHANGED <<notebook, log, pipelineVars, adrVars, returned, sampleVars, kmatrixVars,
                   PROGRESS_BAR, optimizer, evaluations, juliaVars, testVars>>

NextOptimize ==
    \/ CreateOptimizer
    \/ CallFcn
    \/ FinishMigrad
    \/ TimeEstimatorGradient
    \/ CreateAutodiffOptimizer
    \/ AutodiffCallFcn
    \/ AutodiffCallGrad
    \/ FinishAutodiffMigrad

(* ---------------------------------------------------------------------- *)
(* docs/report/019.ipynb: the Mandelbrot set in Julia                      *)
(* ---------------------------------------------------------------------- *)
\* the largest width, height and maxIter of an image (1600, 1200 and 30 in
\* the notebook)
MaxW == 3
MaxH == 3
MaxIter == 3
\* the largest denominator of a saturation and of a value
MaxLevel == 2
\* Float64 numbers of the escape loop are kept as multiples of 1/Scale
Scale == 64

\* x < y, abs(x) and x % n of real numbers; % of Julia is rem, which takes
\* the sign of x
RLess(a, b) == a.re * b.den < b.re * a.den
RAbs(a) == CNum(AbsInt(a.re), 0, a.den)
RRem(a, n) == CNum((IF a.re < 0 THEN -1 ELSE 1) * (AbsInt(a.re) % (n * a.den)), 0, a.den)

\* c = v * s
Chroma(sat, val) == CMul(val, sat)
\* x = c * (1 - abs(((h/60) % 2) - 1))
Secondary(hue, c) == CMul(c, CAdd(COne, CNeg(RAbs(CAdd(RRem(CMul(hue, Rat(1, 60)), 2), Integer(-1))))))
\* r,g,b = if h < 60 (c, x, 0) elseif ... else (c, 0, x) end
Sector(hue, c, x) ==
    IF RLess(hue, Integer(60)) THEN <<c, x, CZero>>
    ELSE IF RLess(hue, Integer(120)) THEN <<x, c, CZero>>
    ELSE IF RLess(hue, Integer(180)) THEN <<CZero, c, x>>
    ELSE IF RLess(hue, Integer(240)) THEN <<CZero, x, c>>
    ELSE IF RLess(hue, Integer(300)) THEN <<x, CZero, c>>
    ELSE <<c, CZero, x>>
\* A last line that reads (r + m), (g + m), (b + m).
ShiftedInOrder(rgb, m) == <<CAdd(rgb[1], m), CAdd(rgb[2], m), CAdd(rgb[3], m)>>
\* (r + m), (b + m), (g + m)
Shifted(rgb, m) == <<CAdd(rgb[1], m), CAdd(rgb[3], m), CAdd(rgb[2], m)>>

\* @inline function hsv2rgb(h, s, v)
hsv2rgb(hue, sat, val) == Shifted(Sector(hue, Chroma(sat, val), Secondary(hue, Chroma(sat, val))), CAdd(val, CNeg(Chroma(sat, val))))

\* RGB{Float64}(r, g, b)
RGB(red, green, blue) == [r |-> red, g |-> green, b |-> blue]
\* an element of Array{RGB{Float64},2}(undef, h, w) that was not stored yet
Undef == [r |-> NaN, g |-> NaN, b |-> NaN]

\* Complex(re, im) and z^2 + c in multiples of 1/Scale
Complex(re, im) == [re |-> re, im |-> im]
SquarePlus(z, c) == Complex((z.re * z.re - z.im * z.im) \div Scale + c.re, (2 * z.re * z.im) \div Scale + c.im)
\* abs(z) < 2
AbsBelowTwo(z) == z.re * z.re + z.im * z.im < 4 * Scale * Scale
\* (2*x - w) / (w * zoom) + moveX with zoom = 0.5 and moveX = -0.5;
\* (2*y - h) / (h * zoom) + moveY with moveY = 0
PixelPoint(fr) == Complex(((2 * fr.x - fr.w) * 2 * Scale) \div fr.w - Scale \div 2, ((2 * fr.y - fr.h) * 2 * Scale) \div fr.h)

NoFrame == [pc |-> "none", w |-> 0, h |-> 0, maxIter |-> 0, x |-> 0, y |-> 0, i |-> 0,
            z |-> Complex(0, 0), c |-> Complex(0, 0), updates |-> 0]

\* A loop whose condition reads abs(z) < 2 && (i -= 1) >= 0.
EscapeStepToBelowZero(fr) ==
    IF ~AbsBelowTwo(fr.z) THEN [fr EXCEPT !.pc = "color"]
    ELSE IF fr.i - 1 >= 0
       THEN [fr EXCEPT !.i = @ - 1, !.z = SquarePlus(fr.z, fr.c), !.updates = @ + 1]
    ELSE [fr EXCEPT !.i = @ - 1, !.pc = "color"]

\* while abs(z) < 2 && (i -= 1) > 0; z = z^2 + c; end: one evaluation of
\* the condition, which decrements i when abs(z) < 2, and the body if it holds
EscapeStep(fr) ==
    IF ~AbsBelowTwo(fr.z) THEN [fr EXCEPT !.pc = "color"]
    ELSE IF fr.i - 1 > 0
       THEN [fr EXCEPT !.i = @ - 1, !.z = SquarePlus(fr.z, fr.c), !.updates = @ + 1]
    ELSE [fr EXCEPT !.i = @ - 1, !.pc = "color"]

\* the arguments of hsv2rgb(i / maxIter * 360, 1, i / maxIter)
ColorArguments(fr) == <<Rat(fr.i * 360, fr.maxIter), COne, Rat(fr.i, fr.maxIter)>>

\* for x in 1:w, for y in 1:h: the next pair, or the end of both loops
NextPixel(fr) ==
    IF fr.y < fr.h THEN [fr EXCEPT !.y = @ + 1, !.pc = "pixel"]
    ELSE IF fr.x < fr.w THEN [fr EXCEPT !.x = @ + 1, !.y = 1, !.pc = "pixel"]
    ELSE [fr EXCEPT !.pc = "return"]

InitMandelbrot ==
    /\ frame = NoFrame
    /\ img = <<>>
    /\ assigned = <<>>

\* mandelbrot() up to the first pixel: w, h, zoom, moveX, moveY, maxIter and
\* img = Array{RGB{Float64},2}(undef,h,w)
CallMandelbrot ==
    /\ AtCell("report019", "mandelbrot")
    /\ frame.pc = "none"
    /\ \E w \in 1..MaxW, h \in 1..MaxH, maxIter \in 1..MaxIter :
          /\ frame' = [NoFrame EXCEPT !.pc = "pixel", !.w = w, !.h = h, !.maxIter = maxIter,
                                      !.x = 1, !.y = 1]
          /\ img' = [p \in (1..h) \X (1..w) |-> Undef]
    /\ UNCHANGED <<notebook, cell, log, pipelineVars, adrVars, returned, sampleVars,
                   kmatrixVars, optimizeVars, assigned, testVars>>

\* i = maxIter; z = c = Complex(...)
StartPixel ==
    /\ AtCell("report019", "mandelbrot")
    /\ frame.pc = "pixel"
    /\ frame' = [frame EXCEPT !.pc = "while", !.i = frame.maxIter, !.z = PixelPoint(frame),
                              !.c = PixelPoint(frame), !.updates = 0]
    /\ UNCHANGED <<notebook, cell, log, pipelineVars, adrVars, returned, sampleVars,
                   kmatrixVars, optimizeVars, img, assigned, testVars>>

\* one turn of the escape loop
Iterate ==
    /\ AtCell("report019", "mandelbrot")
    /\ frame.pc = "while"
    /\ frame' = EscapeStep(frame)
    /\ UNCHANGED <<notebook, cell, log, pipelineVars, adrVars, returned, sampleVars,
                   kmatrixVars, optimizeVars, img, assigned, testVars>>

\* r,g,b = hsv2rgb(i / maxIter * 360, 1, i / maxIter)
\* img[y,x] = RGB{Float64}(r, g, b), and the step of the two for loops
AssignPixel ==
    /\ AtCell("report019", "mandelbrot")
    /\ frame.pc = "color"
    /\ returned' = Returned("hsv2rgb", TupleOf(ColorArguments(frame)),
                            TupleOf(hsv2rgb(ColorArguments(frame)[1], ColorArguments(frame)[2], ColorArguments(frame)[3])))
    /\ img' = [img EXCEPT ![<<frame.y, frame.x>>] =
                  RGB(returned'.value.items[1], returned'.value.items[2], returned'.value.items[3])]
    /\ assigned' = Append(assigned, <<frame.y, frame.x>>)
    /\ frame' = NextPixel(frame)
    /\ UNCHANGED <<notebook, cell, log, pipelineVars, adrVars, sampleVars, kmatrixVars,
                   optimizeVars, testVars>>

\* return img
ReturnImg ==
    /\ AtCell("report019", "mandelbrot")
    /\ frame.pc = "return"
    /\ frame' = [frame EXCEPT !.pc = "done"]
    /\ cell' = After(notebook, cell)
    /\ UNCHANGED <<notebook, log, pipelineVars, adrVars, returned, sampleVars, kmatrixVars,
                   optimizeVars, img, assigned, testVars>>

\* the hues, saturations and values of a call of hsv2rgb
Hues == {Integer(30 * k) : k \in 0..12}
Levels == {Rat(k, MaxLevel) : k \in 0..MaxLevel}

\* hsv2rgb(h, s, v) from a further cell
CallHsv2rgb ==
    /\ AtCell("report019", "end")
    /\ \E hue \in Hues, sat \in Levels, val \in Levels :
          returned' = Returned("hsv2rgb", TupleOf(<<hue, sat, val>>),
                               TupleOf(hsv2rgb(hue, sat, val)))
    /\ UNCHANGED <<notebook, cell, log, pipelineVars, adrVars, sampleVars, kmatrixVars,
                   optimizeVars, juliaVars, testVars>>

NextMandelbrot ==
    \/ CallMandelbrot
    \/ StartPixel
    \/ Iterate
    \/ AssignPixel
    \/ ReturnImg
    \/ CallHsv2rgb

(* ---------------------------------------------------------------------- *)
(* docs/adr/002/composition.ipynb                                          *)
(* ---------------------------------------------------------------------- *)
\* helpers.two_body_momentum_squared and helpers.blatt_weisskopf, unevaluated
Helper(name, args) == Node(name, <<>>, CZero, args)
\* sp.sqrt(x)
Sqrt(x) == Pow(x, Number(Rat(1, 2)))

\* gamma0 * mass0 / (mass0**2 - mass**2 - gamma0 * mass0 * sp.I)
relativistic_breit_wigner(mass, mass0, gamma0) ==
    Over(Times(gamma0, mass0),
         Minus(Minus(Pow(mass0, Number(Integer(2))), Pow(mass, Number(Integer(2)))),
               Times(Times(gamma0, mass0), ImaginaryUnit)))

\* L is the angular_momentum of the code
relativistic_breit_wigner_with_form_factor(mass, mass0, gamma0, m_a, m_b, L, meson_radius) ==
    LET q_squared == Helper("two_body_momentum_squared", <<mass, m_a, m_b>>)
        q0_squared == Helper("two_body_momentum_squared", <<mass0, m_a, m_b>>)
        ff2 == Helper("blatt_weisskopf", <<q_squared, meson_radius, L>>)
        ff02 == Helper("blatt_weisskopf", <<q0_squared, meson_radius, L>>)
        width == Times(Times(Times(gamma0, Over(mass0, mass)), Over(ff2, ff02)),
                       Sqrt(Over(q_squared, q0_squared)))
    IN Times(Times(Times(relativistic_breit_wigner(mass, mass0, width), mass0), gamma0),
             Sqrt(ff2))

\* func(*args) for the functions of the notebook
CallPython(func, args) ==
    IF func.name = "relativistic_breit_wigner"
       THEN relativistic_breit_wigner(args[1], args[2], args[3])
    ELSE relativistic_breit_wigner_with_form_factor(args[1], args[2], args[3], args[4],
                                                    args[5], args[6], args[7])

\* @frozen class DynamicsExpression: attrs checks no types
DynamicsExpression(variables, parameters, expr) ==
    [variables |-> variables, parameters |-> parameters, expression |-> expr]

\* def substitute(self): return self.expression(*self.variables, *self.parameters)
substitute(self) ==
    IF ~IsIterable(self.variables) \/ ~IsIterable(self.parameters)
       THEN RaisedError("substitute", self, "TypeError")
    ELSE IF ~IsCallable(self.expression)
       THEN RaisedError("substitute", self, "TypeError")
    ELSE LET args == self.variables.items \o self.parameters.items
         IN IF "op" \in DOMAIN self.expression
               THEN Returned("substitute", self,
                             Node("AppliedUndef", self.expression.name, CZero, args))
            ELSE IF Len(args) # self.expression.arity
               THEN RaisedError("substitute", self, "TypeError")
            ELSE Returned("substitute", self, CallPython(self.expression, args))

\* the edges of a StateTransitionGraph that carry a resonance: the final
\* state attached to the edge and the particle on it
Graphs ==
    {[e \in {1} |-> [edge_ids |-> <<3, 4>>, latex |-> "f(0)(980)", spin |-> 0]],
     [e \in {1, 2} |->
         IF e = 1 THEN [edge_ids |-> <<2, 3, 4>>, latex |-> "J/psi", spin |-> 1]
         ELSE [edge_ids |-> <<2, 3>>, latex |-> "f(2)(1270)", spin |-> 2]]}

determine_attached_final_state(graph, edge_id) == graph[edge_id].edge_ids
get_edge_props(graph, edge_id) == graph[edge_id]

\* '+'.join(map(str, edge_ids))
RECURSIVE Join(_)
Join(ids) ==
    IF Len(ids) = 1 THEN ToString(ids[1])
    ELSE ToString(ids[1]) \o "+" \o Join(Tail(ids))

\* the symbols that a builder makes for an edge of a graph
SymbolsFromGraph(graph, edge_id) ==
    LET edge_ids == determine_attached_final_state(graph, edge_id)
        particle == get_edge_props(graph, edge_id)
    IN [mass |-> Symbol("m_{" \o Join(edge_ids) \o "}"),
        mass0 |-> Symbol("m_{" \o particle.latex \o "}"),
        gamma0 |-> Symbol("\\Gamma_{" \o particle.latex \o "}"),
        m_a |-> Symbol("m_" \o ToString(edge_ids[1])),
        m_b |-> Symbol("m_" \o ToString(edge_ids[2])),
        angular_momentum |-> Number(Integer(particle.spin)),
        meson_radius |-> Symbol("R_{" \o particle.latex \o "}")]

\* the arguments of the expression of a builder, in the order of its call
BreitWignerArguments(sym) == <<sym.mass, sym.mass0, sym.gamma0>>
FormFactorArguments(sym) ==
    <<sym.mass, sym.mass0, sym.gamma0, sym.m_a, sym.m_b, sym.angular_momentum,
      sym.meson_radius>>

\* variables=(mass) is the symbol itself, not a tuple of it, and expression
\* is the value of relativistic_breit_wigner(mass, mass0, gamma0)
relativistic_breit_wigner_from_graph(graph, edge_id) ==
    LET args == BreitWignerArguments(SymbolsFromGraph(graph, edge_id))
    IN DynamicsExpression(Head(args), TupleOf(Tail(args)),
                          CallPython(PyFunction("relativistic_breit_wigner", 3), args))

relativistic_breit_wigner_with_form_factor_from_graph(graph, edge_id) ==
    LET args == FormFactorArguments(SymbolsFromGraph(graph, edge_id))
    IN DynamicsExpression(
          Head(args), TupleOf(Tail(args)),
          CallPython(PyFunction("relativistic_breit_wigner_with_form_factor", 7), args))

Builders == {"relativistic_breit_wigner_from_graph",
             "relativistic_breit_wigner_with_form_factor_from_graph"}
CallBuilder(builder, graph, edge_id) ==
    IF builder = "relativistic_breit_wigner_from_graph"
       THEN relativistic_breit_wigner_from_graph(graph, edge_id)
    ELSE relativistic_breit_wigner_with_form_factor_from_graph(graph, edge_id)

\* bw_decay_f0 = DynamicsExpression(variables=sp.symbols("m_3+4", seq=True), ...)
BwDecayF0 ==
    DynamicsExpression(TupleOf(<<Symbol("m_3+4")>>),
                       TupleOf(<<Symbol("m_f(0)(980)"),
                                 Symbol("\\Gamma_f(0)(980)")>>),
                       PyFunction("relativistic_breit_wigner", 3))

NoDynamics == DynamicsExpression(None, None, None)

InitComposition == dynamics = NoDynamics

\* bw_decay_f0 = DynamicsExpression(...); bw_decay_f0.substitute()
CreateBwDecayF0 ==
    /\ AtCell("composition", "bw_decay_f0")
    /\ dynamics' = BwDecayF0
    /\ returned' = substitute(dynamics')
    /\ cell' = After(notebook, cell)
    /\ UNCHANGED <<notebook, log, pipelineVars, subclass, sampleVars, kmatrixVars, optimizeVars, juliaVars, testVars>>

\* a builder is called for an edge of a graph
BuildFromGraph ==
    /\ AtCell("composition", "end")
    /\ \E builder \in Builders, graph \in Graphs : \E edge_id \in DOMAIN graph :
          /\ dynamics' = CallBuilder(builder, graph, edge_id)
          /\ returned' = Returned(builder, None, dynamics')
    /\ UNCHANGED <<notebook, cell, log, pipelineVars, subclass, sampleVars, kmatrixVars,
                   optimizeVars, juliaVars, testVars>>

\* dynamics.substitute()
Substitute ==
    /\ AtCell("composition", "end")
    /\ returned' = substitute(dynamics)
    /\ UNCHANGED <<notebook, cell, log, pipelineVars, adrVars, sampleVars, kmatrixVars,
                   optimizeVars, juliaVars, testVars>>

\* the values an assignment tries to give to an attribute
AttributeValues == {TupleOf(<<>>), PyFunction("relativistic_breit_wigner", 3),
                    Symbol("m")}

\* A class that is not frozen: the assignment binds the attribute.
SetAttributeOfMutable ==
    /\ AtCell("composition", "end")
    /\ \E name \in {"variables", "parameters", "expression"}, value \in AttributeValues :
          /\ dynamics' = [dynamics EXCEPT ![name] = value]
          /\ returned' = Returned("setattr", dynamics, None)
    /\ UNCHANGED <<notebook, cell, log, pipelineVars, subclass, sampleVars, kmatrixVars,
                   optimizeVars, juliaVars, testVars>>

\* dynamics.name = value: the frozen class raises and binds nothing
SetAttribute ==
    /\ AtCell("composition", "end")
    /\ \E name \in {"variables", "parameters", "expression"}, value \in AttributeValues :
          returned' = RaisedError("setattr", dynamics, "FrozenInstanceError")
    /\ UNCHANGED <<notebook, cell, log, pipelineVars, adrVars, sampleVars, kmatrixVars,
                   optimizeVars, juliaVars, testVars>>

NextComposition ==
    \/ CreateBwDecayF0
    \/ BuildFromGraph
    \/ Substitute
    \/ SetAttribute

(* ---------------------------------------------------------------------- *)
(* docs/adr/002/function.ipynb                                             *)
(* ---------------------------------------------------------------------- *)
\* the methods that DynamicsFunction marks with @abstractmethod
AbstractMethods == {"eval", "from_graph"}

\* class DynamicsFunction(sp.Function): the metaclass of sp.Function is
\* sympy's FunctionClass, which does not derive from abc.ABCMeta
MetaclassOfFunction == "FunctionClass"

\* a class that derives from DynamicsFunction and defines some methods
Class(name, defines) == [name |-> name, defines |-> defines]
RelativisticBreitWigner == Class("RelativisticBreitWigner", {"eval", "from_graph"})
RelativisticBreitWignerWithFF == Class("RelativisticBreitWignerWithFF", {"eval", "from_graph"})
NoClass == Class("", {})

\* cls.__abstractmethods__: only abc.ABCMeta collects the abstract methods
\* that a class leaves unimplemented
Unimplemented(cls) ==
    IF MetaclassOfFunction = "ABCMeta" THEN AbstractMethods \ cls.defines ELSE {}

\* RelativisticBreitWigner.eval(cls, *args)
EvalRelativisticBreitWigner(args) ==
    Over(Times(args[3], args[2]),
         Minus(Minus(Pow(args[2], Number(Integer(2))), Pow(args[1], Number(Integer(2)))),
               Times(Times(args[3], args[2]), ImaginaryUnit)))

\* RelativisticBreitWignerWithFF.eval(cls, *args); RelativisticBreitWigner(...)
\* in it is the value of the eval of that class
EvalRelativisticBreitWignerWithFF(args) ==
    LET q_squared == Helper("two_body_momentum_squared", <<args[1], args[4], args[5]>>)
        q0_squared == Helper("two_body_momentum_squared", <<args[2], args[4], args[5]>>)
        ff2 == Helper("blatt_weisskopf", <<q_squared, args[7], args[6]>>)
        ff02 == Helper("blatt_weisskopf", <<q0_squared, args[7], args[6]>>)
        width == Times(Times(Times(args[3], Over(args[2], args[1])), Over(ff2, ff02)),
                       Sqrt(Over(q_squared, q0_squared)))
    IN Times(Times(Times(EvalRelativisticBreitWigner(<<args[1], args[2], width>>), args[2]),
                   args[3]),
             Sqrt(ff2))

\* cls.eval(*args) of the classes of the notebook
Eval(cls, args) ==
    IF cls.name = "RelativisticBreitWigner" THEN EvalRelativisticBreitWigner(args)
    ELSE EvalRelativisticBreitWignerWithFF(args)

\* cls(*args): object.__new__ refuses a class with abstract methods left;
\* sp.Function gives the value of eval, or the unevaluated application when
\* eval returns None as the inherited eval does
New(cls, args) ==
    IF Unimplemented(cls) # {} THEN RaisedError("new", cls, "TypeError")
    ELSE IF "eval" \in cls.defines THEN Returned("new", cls, Eval(cls, args))
    ELSE Returned("new", cls, Node(cls.name, <<>>, CZero, args))

\* A from_graph that hands the width of the resonance over before its mass.
ArgumentsFromGraphWidthFirst(cls, graph, edge_id) ==
    LET edge_ids == determine_attached_final_state(graph, edge_id)
        particle == get_edge_props(graph, edge_id)
        mass == Symbol("m_{" \o Join(edge_ids) \o "}")
        mass0 == Symbol("m_{" \o particle.latex \o "}")
        gamma0 == Symbol("\\Gamma_{" \o particle.latex \o "}")
    IN IF cls.name = "RelativisticBreitWigner" THEN <<mass, gamma0, mass0>>
       ELSE <<mass, gamma0, mass0, Symbol("m_" \o ToString(edge_ids[1])),
              Symbol("m_" \o ToString(edge_ids[2])), Number(Integer(particle.spin)),
              Symbol("R_{" \o particle.latex \o "}")>>

\* the arguments of cls(...) in from_graph of the two classes of the notebook
ArgumentsFromGraph(cls, graph, edge_id) ==
    LET edge_ids == determine_attached_final_state(graph, edge_id)
        particle == get_edge_props(graph, edge_id)
        mass == Symbol("m_{" \o Join(edge_ids) \o "}")
        mass0 == Symbol("m_{" \o particle.latex \o "}")
        gamma0 == Symbol("\\Gamma_{" \o particle.latex \o "}")
    IN IF cls.name = "RelativisticBreitWigner" THEN <<mass, mass0, gamma0>>
       ELSE <<mass, mass0, gamma0, Symbol("m_" \o ToString(edge_ids[1])),
              Symbol("m_" \o ToString(edge_ids[2])), Number(Integer(particle.spin)),
              Symbol("R_{" \o particle.latex \o "}")>>

\* cls(*args), or cls.from_graph(graph, edge_id), which returns cls(*args) in
\* the classes of the notebook; the inherited from_graph is `pass`
Build(cls, method, args) ==
    IF method = "from_graph" /\ "from_graph" \notin cls.defines
       THEN Returned("from_graph", cls, None)
    ELSE [New(cls, args) EXCEPT !.op = method]

InitFunction == subclass = NoClass

\* class RelativisticBreitWigner(DynamicsFunction): ...
\* class RelativisticBreitWignerWithFF(DynamicsFunction): ...
DefineClasses ==
    /\ AtCell("function", "RelativisticBreitWigner")
    /\ subclass' \in {RelativisticBreitWigner, RelativisticBreitWignerWithFF}
    /\ cell' = After(notebook, cell)
    /\ UNCHANGED <<notebook, log, pipelineVars, dynamics, returned, sampleVars,
                   kmatrixVars, optimizeVars, juliaVars, testVars>>

\* a further class that derives from DynamicsFunction with some of the methods
DefineSubclass ==
    /\ AtCell("function", "end")
    /\ \E name \in {"RelativisticBreitWigner", "RelativisticBreitWignerWithFF"},
          defines \in SUBSET AbstractMethods :
          subclass' = Class(name, defines)
    /\ returned' = NoOutcome
    /\ UNCHANGED <<notebook, cell, log, pipelineVars, dynamics, sampleVars, kmatrixVars,
                   optimizeVars, juliaVars, testVars>>

\* subclass(*args) and subclass.from_graph(graph, edge_id)
UseSubclass ==
    /\ AtCell("function", "end")
    /\ \E method \in {"new", "from_graph"}, graph \in Graphs : \E edge_id \in DOMAIN graph :
          returned' = Build(subclass, method, ArgumentsFromGraph(subclass, graph, edge_id))
    /\ UNCHANGED <<notebook, cell, log, pipelineVars, adrVars, sampleVars, kmatrixVars,
                   optimizeVars, juliaVars, testVars>>

NextFunction ==
    \/ DefineClasses
    \/ DefineSubclass
    \/ UseSubclass

(* ---------------------------------------------------------------------- *)
(* docs/symbolics.ipynb: the pure-Python loop and the array computation     *)
(* ---------------------------------------------------------------------- *)
\* the samples have at most MaxSample integers of 0..MaxValue
MaxSample == 2
MaxValue == 2
Samples == UNION {[1..n -> 0..MaxValue] : n \in 0..MaxSample}

\* zip(xs, ys, strict=False)
zip(xs, ys) ==
    LET n == IF Len(xs) < Len(ys) THEN Len(xs) ELSE Len(ys)
    IN Tuple([i \in 1..n |-> <<xs[i], ys[i]>>])

\* c_lst = []; for a_i, b_i in pairs: c_lst.append(a_i + b_i**2)
RECURSIVE Loop(_, _)
Loop(c, pairs) ==
    IF pairs = <<>> THEN c
    ELSE LET a_i == Head(pairs)[1]
             b_i == Head(pairs)[2]
         IN Loop(Append(c, a_i + b_i * b_i), Tail(pairs))

\* a + b**2 on arrays of one shape
ArrayAddSquare(xs, ys) == Tuple([i \in 1..Len(xs) |-> xs[i] + ys[i] * ys[i]])

InitSamples ==
    /\ a_lst = <<>>
    /\ b_lst = <<>>
    /\ c_lst = <<>>
    /\ array_a = <<>>
    /\ array_b = <<>>
    /\ array_c = <<>>

\* a_lst = list(range(...)); b_lst = list(range(...)): two samples of one length
CreateLists ==
    /\ AtCell("samples", "a_lst")
    /\ \E xs \in Samples, ys \in Samples :
          /\ Len(xs) = Len(ys)
          /\ a_lst' = xs
          /\ b_lst' = ys
    /\ cell' = After(notebook, cell)
    /\ UNCHANGED <<notebook, log, pipelineVars, adrVars, returned, c_lst, array_a, array_b,
                   array_c, kmatrixVars, optimizeVars, juliaVars, testVars>>

\* for a_i, b_i in zip(a_lst, a_lst, strict=False): c_lst.append(a_i + b_i**2)
RunLoop ==
    /\ AtCell("samples", "c_lst")
    /\ c_lst' = Loop(<<>>, zip(a_lst, a_lst))
    /\ cell' = After(notebook, cell)
    /\ UNCHANGED <<notebook, log, pipelineVars, adrVars, returned, a_lst, b_lst, array_a,
                   array_b, array_c, kmatrixVars, optimizeVars, juliaVars, testVars>>

\* a = np.array(a_lst); b = np.array(b_lst)
CreateArrays ==
    /\ AtCell("samples", "array_a")
    /\ array_a' = a_lst
    /\ array_b' = b_lst
    /\ cell' = After(notebook, cell)
    /\ UNCHANGED <<notebook, log, pipelineVars, adrVars, returned, a_lst, b_lst, c_lst,
                   array_c, kmatrixVars, optimizeVars, juliaVars, testVars>>

\* c = a + b**2
ComputeArray ==
    /\ AtCell("samples", "array_c")
    /\ array_c' = ArrayAddSquare(array_a, array_b)
    /\ cell' = After(notebook, cell)
    /\ UNCHANGED <<notebook, log, pipelineVars, adrVars, returned, a_lst, b_lst, c_lst,
                   array_a, array_b, kmatrixVars, optimizeVars, juliaVars, testVars>>

NextSamples ==
    \/ CreateLists
    \/ RunLoop
    \/ CreateArrays
    \/ ComputeArray

(* ---------------------------------------------------------------------- *)
(* docs/report/009.ipynb: the relativistic K-matrix and its plot           *)
(* ---------------------------------------------------------------------- *)
\* relativistic_k_matrix is called for at most MaxChannels channels
MaxChannels == 2

\* sp.sympify of a Python int
Sympify(n) == Number(Integer(n))

\* sp.IndexedBase(label, shape=shape): the shape is part of the expression
IndexedBase(label, shape) == Node("IndexedBase", label, CZero, shape)
\* base[indices]
Indexed(base, indices) == Node("Indexed", <<>>, CZero, <<base>> \o indices)
\* sp.Sum(summand, (index, lower, upper))
Sum(summand, index, lower, upper) ==
    Node("Sum", <<>>, CZero, <<summand, index, lower, upper>>)

\* PhaseSpaceFactor(s, m_a, m_b, i) and CoupledWidth(s, mass0, gamma0, m_a, m_b,
\* angular_momentum, R, i), unevaluated
PhaseSpaceFactor(s_, m_a, m_b, i) ==
    Node("PhaseSpaceFactor", <<>>, CZero, <<s_, m_a, m_b, i>>)
CoupledWidth(s_, mass0, gamma0, m_a, m_b, angular_momentum, R, i) ==
    Node("CoupledWidth", <<>>, CZero,
         <<s_, mass0, gamma0, m_a, m_b, angular_momentum, R, i>>)

\* the names that the cell of the symbols binds at the level of the notebook:
\* n_channels = 2; n_resonances, i, R, L = sp.symbols(...); m_a, m_b = ...
Namespace(n_channels) ==
    [n_channels |-> n_channels,
     n_resonances |-> Symbol("n_R"),
     R |-> Symbol("R"),
     L |-> Symbol("L"),
     m_a |-> IndexedBase("m_a", <<Sympify(n_channels)>>),
     m_b |-> IndexedBase("m_b", <<Sympify(n_channels)>>)]
NoNamespace ==
    [n_channels |-> 0, n_resonances |-> Undefined, R |-> Undefined, L |-> Undefined,
     m_a |-> Undefined, m_b |-> Undefined]

\* def residue_function(i), inside Kij_relativistic: it finds the names R, m_a
\* and m_b in the namespace ns of the notebook
residue_function(ns, m, M, Gamma, gamma, angular_momentum, i) ==
    Times(Indexed(gamma, <<ns.R, Sympify(i)>>),
          Sqrt(Times(Indexed(M, <<ns.R>>),
                     CoupledWidth(Pow(m, Sympify(2)), M, Gamma, ns.m_a, ns.m_b,
                                  angular_momentum, ns.R, Sympify(i)))))

\* def Kij_relativistic(m, M, Gamma, gamma, i, j, n_resonances, angular_momentum)
Kij_relativistic(ns, m, M, Gamma, gamma, i, j, n_resonances, angular_momentum) ==
    Sum(Over(Times(residue_function(ns, m, M, Gamma, gamma, angular_momentum, i),
                   residue_function(ns, m, M, Gamma, gamma, angular_momentum, j)),
             Minus(Pow(Indexed(M, <<ns.R>>), Sympify(2)), Pow(m, Sympify(2)))),
        ns.R, Sympify(0), Minus(n_resonances, Sympify(1)))

\* A phase-space matrix with the factor of the row in every column.
PhaseSpaceMatrixFilled(n_channels, m, m_a, m_b) ==
    Tuple([r \in 1..n_channels |->
       Tuple([c \in 1..n_channels |->
          PhaseSpaceFactor(Pow(m, Sympify(2)), Indexed(m_a, <<Sympify(r - 1)>>),
                           Indexed(m_b, <<Sympify(r - 1)>>), Sympify(r - 1))])])

\* rho = sp.zeros(n_channels, n_channels)
\* for i in range(n_channels): rho[i, i] = PhaseSpaceFactor(m**2, m_a[i], m_b[i], i)
\* (row i and column j of the code are row i + 1 and column j + 1 here)
PhaseSpaceMatrix(n_channels, m, m_a, m_b) ==
    Tuple([r \in 1..n_channels |->
       Tuple([c \in 1..n_channels |->
          IF r = c
             THEN PhaseSpaceFactor(Pow(m, Sympify(2)), Indexed(m_a, <<Sympify(r - 1)>>),
                                   Indexed(m_b, <<Sympify(r - 1)>>), Sympify(r - 1))
          ELSE Sympify(0)])])

\* def relativistic_k_matrix(n_resonances, n_channels, angular_momentum=0): the
\* matrix T = K * (sp.eye(n_channels) - sp.I * rho * K).inv() with every K[i, j]
\* substituted by Kij_relativistic(...), kept by the matrices it is made of
relativistic_k_matrix(ns, n_resonances, n_channels, angular_momentum) ==
    LET m == Symbol("m")
        M == IndexedBase("m", <<n_resonances>>)
        Gamma == IndexedBase("Gamma", <<n_resonances, Sympify(n_channels)>>)
        gamma == IndexedBase("gamma", <<n_resonances, Sympify(n_channels)>>)
        m_a == IndexedBase("m_a", <<Sympify(n_channels)>>)
        m_b == IndexedBase("m_b", <<Sympify(n_channels)>>)
    IN [n_resonances |-> n_resonances,
        n_channels |-> n_channels,
        angular_momentum |-> angular_momentum,
        rho |-> PhaseSpaceMatrix(n_channels, m, m_a, m_b),
        K |-> Tuple([r \in 1..n_channels |->
                 Tuple([c \in 1..n_channels |->
                    Kij_relativistic(ns, m, M, Gamma, gamma, r - 1, c - 1, n_resonances,
                                     angular_momentum)])])]

NoMatrix == [n_resonances |-> Undefined, n_channels |-> 0, angular_momentum |-> Undefined,
             rho |-> <<>>, K |-> <<>>]

\* the figure of plot_relativistic_k_matrix: what the last axis shows
Figure(n_channels, mesh, title) == [n_channels |-> n_channels, mesh |-> mesh, title |-> title]
NoFigure == Figure(0, "", "")
\* for ax in axes[1:]: ax.clear()
Clear(fig) == Figure(fig.n_channels, "", "")
\* axes[-1].pcolormesh(X, Y, Z_values, cmap=cm.coolwarm); axes[-1].set_title(...)
Draw(fig, Z_values, title) == Figure(fig.n_channels, Z_values, title)

\* ipywidgets.RadioButtons(options=["imag", "real", "abs"])
RadioButtons == <<"imag", "real", "abs">>
\* the values of imag_real in a call of plot3: those of the widget and another
ImagRealValues == {RadioButtons[k] : k \in 1..Len(RadioButtons)} \cup {"phase"}

\* axes[-1].set_title(ax_title) if n_channels == 1
\* else axes[-1].set_title(f"{ax_title}, channel {i}")
Title(ax_title, n_channels, i) ==
    IF n_channels = 1 THEN ax_title ELSE ax_title \o ", channel " \o ToString(i)

\* A plot3 that clears the axes before it looks at imag_real.
plot3_clearing_first(fig, value, i) ==
    IF value = "imag"
       THEN [figure |-> Draw(Clear(fig), "Z.imag", Title("Re $T$", fig.n_channels, i)),
             outcome |-> Returned("plot3", fig, None)]
    ELSE IF value = "real"
       THEN [figure |-> Draw(Clear(fig), "Z.real", Title("Im $T$", fig.n_channels, i)),
             outcome |-> Returned("plot3", fig, None)]
    ELSE IF value = "abs"
       THEN [figure |-> Draw(Clear(fig), "np.abs(Z)", Title("$|T|$", fig.n_channels, i)),
             outcome |-> Returned("plot3", fig, None)]
    ELSE [figure |-> Clear(fig),
          outcome |-> RaisedError("plot3", fig, "NotImplementedError")]

\* def plot3(**kwargs), with imag_real = kwargs.pop("imag_real") and i = kwargs["i"]:
\* the branches on imag_real come before the axes are cleared and drawn on
plot3(fig, value, i) ==
    IF value = "imag"
       THEN [figure |-> Draw(Clear(fig), "Z.imag", Title("Re $T$", fig.n_channels, i)),
             outcome |-> Returned("plot3", fig, None)]
    ELSE IF value = "real"
       THEN [figure |-> Draw(Clear(fig), "Z.real", Title("Im $T$", fig.n_channels, i)),
             outcome |-> Returned("plot3", fig, None)]
    ELSE IF value = "abs"
       THEN [figure |-> Draw(Clear(fig), "np.abs(Z)", Title("$|T|$", fig.n_channels, i)),
             outcome |-> Returned("plot3", fig, None)]
    ELSE [figure |-> fig, outcome |-> RaisedError("plot3", fig, "NotImplementedError")]

InitReport009 ==
    /\ globals = NoNamespace
    /\ matrix = NoMatrix
    /\ imag_real = ""
    /\ figure = NoFigure

\* n_channels = 2; n_resonances, i, R, L = sp.symbols(...); ...; m_a = ...; m_b = ...
DefineSymbols ==
    /\ AtCell("report009", "n_channels")
    /\ globals' = Namespace(2)
    /\ cell' = After(notebook, cell)
    /\ UNCHANGED <<notebook, log, pipelineVars, adrVars, returned, sampleVars, matrix,
                   imag_real, figure, optimizeVars, juliaVars, testVars>>

\* relativistic_k_matrix(n_resonances, n_channels, angular_momentum)
CallRelativisticKMatrix ==
    /\ AtCell("report009", "end")
    /\ \E n_resonances \in {Sympify(1), Sympify(2), globals.n_resonances},
          n_channels \in 1..MaxChannels,
          angular_momentum \in {Sympify(0), globals.L} :
          matrix' = relativistic_k_matrix(globals, n_resonances, n_channels, angular_momentum)
    /\ UNCHANGED <<notebook, cell, log, pipelineVars, adrVars, returned, sampleVars, globals,
                   imag_real, figure, optimizeVars, juliaVars, testVars>>

\* plot_relativistic_k_matrix(n_resonances, n_channels, angular_momentum, title):
\* the figure is made and interactive_output calls plot3 with the values of
\* the widgets, the first option of the radio buttons and channel 0
PlotRelativisticKMatrix ==
    /\ AtCell("report009", "end")
    /\ figure = NoFigure
    /\ \E n_resonances \in {Sympify(1), Sympify(2)}, n_channels \in 1..MaxChannels :
          /\ matrix' = relativistic_k_matrix(globals, n_resonances, n_channels, globals.L)
          /\ LET called == plot3(Figure(n_channels, "", ""), RadioButtons[1], 0)
             IN /\ figure' = called.figure
                /\ returned' = called.outcome
    /\ imag_real' = RadioButtons[1]
    /\ UNCHANGED <<notebook, cell, log, pipelineVars, adrVars, sampleVars, globals, optimizeVars, juliaVars, testVars>>

\* plot3(**kwargs) with a value of imag_real and a channel i
Plot3 ==
    /\ AtCell("report009", "end")
    /\ figure # NoFigure
    /\ \E value \in ImagRealValues, i \in 0..(figure.n_channels - 1) :
          LET called == plot3(figure, value, i)
          IN /\ imag_real' = value
             /\ figure' = called.figure
             /\ returned' = called.outcome
    /\ UNCHANGED <<notebook, cell, log, pipelineVars, adrVars, sampleVars, globals, matrix,
                   optimizeVars, juliaVars, testVars>>

NextReport009 ==
    \/ DefineSymbols
    \/ CallRelativisticKMatrix
    \/ PlotRelativisticKMatrix
    \/ Plot3

(* ---------------------------------------------------------------------- *)
(* The test run: [tool.pytest.ini_options] of pyproject.toml, with the     *)
(* notebook plugin collecting the *.ipynb files                            *)
(* ---------------------------------------------------------------------- *)
\* --nbmake-timeout=1200: the seconds a cell may run
NbmakeTimeout == 1200

File(dir, stem, ext) == [dir |-> dir, stem |-> stem, ext |-> ext]

\* testpaths
TestPaths == {<<".pre-commit">>, <<"docs">>}
\* norecursedirs
NoRecurseDirs == {<<".ipynb_checkpoints">>, <<".virtual_documents">>, <<"_build">>,
                  <<"docs", "adr">>}
\* --ignore
Ignore == {File(<<"docs", "adr", "001">>, "sympy", "ipynb"), File(<<"docs">>, "conf", "py")}
\* --ignore-glob=*/.ipynb_checkpoints/*
IgnoreGlobDir == ".ipynb_checkpoints"
\* -k not docs/report/019.ipynb
DeselectKeyword == File(<<"docs", "report">>, "019", "ipynb")

\* the files of the repository, in the order of collection
RepositoryFiles ==
    <<File(<<".pre-commit">>, "pin_nb_requirements", "py"),
      File(<<"docs", "_build", "jupyter_execute">>, "symbolics", "ipynb"),
      File(<<"docs", "adr", "001">>, "sympy", "ipynb"),
      File(<<"docs", "adr", "002">>, "composition", "ipynb"),
      File(<<"docs", "adr", "002">>, "function", "ipynb"),
      File(<<"docs">>, "conf", "py"),
      File(<<"docs", "report", ".ipynb_checkpoints">>, "022-checkpoint", "ipynb"),
      File(<<"docs", "report">>, "009", "ipynb"),
      File(<<"docs", "report">>, "019", "ipynb"),
      File(<<"docs", "report">>, "022", "ipynb"),
      File(<<"docs">>, "symbolics", "ipynb")>>

IsPrefix(p, q) == Len(p) <= Len(q) /\ SubSeq(q, 1, Len(p)) = p
IsSuffix(p, q) == Len(p) <= Len(q) /\ SubSeq(q, Len(q) - Len(p) + 1, Len(q)) = p

\* fnmatch_ex(pattern, dir): a pattern without a separator is matched with
\* the basename, any other with the end of the path
MatchesNoRecurse(dir) == \E pattern \in NoRecurseDirs : IsSuffix(pattern, dir)

\* A walk that looks at the directory of the file only, not at its parents.
RecursedLastOnly(root, dir) == ~MatchesNoRecurse(dir)

\* the walk from a test path down to the directory of the file recurses
\* into no directory that norecursedirs matches
RECURSIVE Recursed(_, _)
Recursed(root, dir) ==
    IF Len(dir) <= Len(root) THEN dir = root
    ELSE /\ ~MatchesNoRecurse(dir)
         /\ Recursed(root, SubSeq(dir, 1, Len(dir) - 1))

Ignored(f) ==
    \/ f \in Ignore
    \/ \E i \in 1..Len(f.dir) : f.dir[i] = IgnoreGlobDir

\* pytest_collect_file of the notebook plugin: a *.ipynb file
IsNotebook(f) == f.ext = "ipynb"

Collected(f) ==
    /\ IsNotebook(f)
    /\ ~Ignored(f)
    /\ \E root \in TestPaths : IsPrefix(root, f.dir) /\ Recursed(root, f.dir)

\* -k: the keyword is a part of the name of the test
MatchesKeyword(f, keyword) ==
    /\ f.stem = keyword.stem /\ f.ext = keyword.ext
    /\ IsSuffix(keyword.dir, f.dir)

Deselected(f) == MatchesKeyword(f, DeselectKeyword)

Runs(f) == Collected(f) /\ ~Deselected(f)

\* how long a cell may take, in seconds
CellSeconds == {700, 1300}

NoRun == [path |-> File(<<>>, "", ""), cells |-> <<>>, pos |-> 0, trace |-> <<>>,
          status |-> "none"]

InitTest ==
    /\ session = "collect"
    /\ selected = <<>>
    /\ results = <<>>
    /\ run = NoRun

\* the collection of the session and the deselection by -k
Collect ==
    /\ session = "collect"
    /\ selected' = SelectSeq(RepositoryFiles, Runs)
    /\ session' = "run"
    /\ UNCHANGED <<results, run, kernelVars>>

\* An outcome that knows no timeout.
CellOutcomeNoTimeout(raises, seconds) == IF raises THEN "error" ELSE "ok"

\* the outcome of a code cell: the kernel is interrupted at the timeout
CellOutcome(raises, seconds) ==
    IF seconds > NbmakeTimeout THEN "timeout"
    ELSE IF raises THEN "error"
    ELSE "ok"

\* the status of the run once pos cells were handled, the last with outcome
StatusAfter(cells, pos, outcome) ==
    IF outcome # "ok" THEN "failed"
    ELSE IF pos = Len(cells) THEN "passed"
    ELSE "running"

\* the next notebook of the session is opened
StartNotebook ==
    /\ session = "run"
    /\ run.status # "running"
    /\ Len(results) < Len(selected)
    /\ \E n \in 0..MaxCells : \E cells \in SeqsOfLen({"code", "markdown"}, n) :
          run' = [path |-> selected[Len(results) + 1], cells |-> cells, pos |-> 0,
                  trace |-> <<>>, status |-> StatusAfter(cells, 0, "ok")]
    /\ UNCHANGED <<session, selected, results, kernelVars>>

\* the next cell of the notebook: a markdown cell is passed over, a code
\* cell is executed
ExecuteCell ==
    /\ session = "run"
    /\ run.status = "running"
    /\ \/ /\ run.cells[run.pos + 1] = "markdown"
          /\ run' = [run EXCEPT !.pos = @ + 1,
                                !.status = StatusAfter(run.cells, run.pos + 1, "ok")]
       \/ /\ run.cells[run.pos + 1] = "code"
          /\ \E raises \in BOOLEAN, seconds \in CellSeconds :
                LET outcome == CellOutcome(raises, seconds)
                IN run' = [run EXCEPT
                             !.pos = @ + 1,
                             !.trace = Append(@, [cell |-> run.pos + 1,
                                                  raises |-> raises,
                                                  seconds |-> seconds,
                                                  outcome |-> outcome]),
                             !.status = StatusAfter(run.cells, run.pos + 1, outcome)]
    /\ UNCHANGED <<session, selected, results, kernelVars>>

\* the test of the notebook is reported
ReportNotebook ==
    /\ session = "run"
    /\ run.status \in {"passed", "failed"}
    /\ Len(results) < Len(selected)
    /\ run.path = selected[Len(results) + 1]
    /\ results' = Append(results, [path |-> run.path, outcome |-> run.status])
    /\ session' = IF Len(results') = Len(selected) THEN "finished" ELSE "run"
    /\ UNCHANGED <<selected, run, kernelVars>>

NextTest ==
    \/ Collect
    \/ StartNotebook
    \/ ExecuteCell
    \/ ReportNotebook

\* the session starts with nothing collected; no notebook runs in a kernel yet
InitSession ==
    /\ notebook = "none" /\ cell = "end" /\ log = <<>>
    /\ SymInit /\ Init022
    /\ InitComposition /\ InitFunction /\ InitSamples /\ InitReport009
    /\ InitOptimize
    /\ InitMandelbrot
    /\ returned = NoOutcome
    /\ session = "collect"
    /\ selected = <<>>
    /\ results = <<>>
    /\ run = NoRun

SpecTest == InitSession /\ [][NextTest]_vars

(* ---------------------------------------------------------------------- *)
(* A kernel runs one notebook from its first cell to its last              *)
(* ---------------------------------------------------------------------- *)
Init ==
    /\ notebook \in {"symbolics", "report022", "composition", "function", "samples",
                     "report009", "report019"}
    /\ cell = Cells[notebook][1]
    /\ log = <<>>
    /\ SymInit
    /\ Init022
    /\ InitComposition
    /\ InitFunction
    /\ InitSamples
    /\ InitReport009
    /\ InitOptimize
    /\ InitMandelbrot
    /\ returned = NoOutcome
    /\ InitTest

Next ==
    \/ SymNext
    \/ Next022
    \/ NextComposition
    \/ NextFunction
    \/ NextSamples
    \/ NextReport009
    \/ NextOptimize
    \/ NextMandelbrot

Spec == Init /\ [][Next]_vars

(* ---------------------------------------------------------------------- *)
(* Properties of the substitution engine and of the code generator         *)
(* ---------------------------------------------------------------------- *)

\* C1: substituting designated symbols by constants yields a graph in which
\* none of the designated symbols occurs and every other symbol of the
\* original still occurs.  In symbolics.ipynb, substituting {m0, Gamma0, g}
\* in the Breit-Wigner over {s, m0, Gamma0, g} leaves exactly {s}; in report
\* 022, substituting all parameter defaults leaves only kinematic variables,
\* and substituting the fixed symbols leaves the others.
C1_SubstitutionRemovesDesignatedSymbols ==
    /\ Ran("symbolics", "substituted_expr") =>
          /\ FreeSymbols(expression) = {s, m0, Gamma0, g}
          /\ FreeSymbols(substituted_expr) = FreeSymbols(expression) \ DOMAIN Substitutions
          /\ FreeSymbols(substituted_expr) = {s}
    /\ Ran("report022", "fixed_intensity_func") =>
          /\ FreeSymbols(substituted_expression)
                = FreeSymbols(unfolded_expression) \ KeySet(model.parameter_defaults)
          /\ FreeSymbols(substituted_expression) \subseteq model.kinematic_variables
          /\ FreeSymbols(substituted_expression) # {}
    /\ Ran("report022", "intensity_func") =>
          FreeSymbols(expression) = FreeSymbols(unfolded_expression) \ KeySet(fixed_symbols)

\* the substituted Breit-Wigner exists and s is its symbol
C1_Witness ==
    /\ Ran("symbolics", "substituted_expr")
    /\ substituted_expr # expression
    /\ s \in FreeSymbols(substituted_expr)

\* a subtree without a symbol
IsConstant(e) == FreeSymbols(e) = {}
\* a subtree of real-valued numbers only: no symbol and no imaginary unit
IsRealConstant(e) == IsConstant(e) /\ ImaginaryUnit \notin Subtrees(e)

\* C2 as stated: in the substituted graph every subtree that contains no
\* remaining symbol is a single node.
C2_EveryConstantSubtreeIsOneNode ==
    Ran("symbolics", "substituted_expr") =>
       \A e \in Subtrees(substituted_expr) : IsConstant(e) => e.args = <<>>

\* C2: after a substitution every subtree of real-valued numbers only (no
\* remaining symbol, no imaginary unit) is a single number node, and the
\* substituted tree has no more nodes than the original.  The imaginary unit
\* stays a node of its own, so an imaginary constant stays a product.
C2_RealConstantSubtreesCollapsed ==
    /\ Ran("symbolics", "substituted_expr") =>
          /\ \A e \in Subtrees(substituted_expr) : IsRealConstant(e) => IsNumber(e)
          /\ CountNodes(substituted_expr) <= CountNodes(expression)
    /\ Ran("report022", "fixed_intensity_func") =>
          /\ \A e \in Subtrees(substituted_expression) : IsRealConstant(e) => IsNumber(e)
          /\ CountNodes(substituted_expression) <= CountNodes(unfolded_expression)
    /\ Ran("report022", "intensity_func") =>
          /\ \A e \in Subtrees(expression) : IsRealConstant(e) => IsNumber(e)
          /\ CountNodes(expression) <= CountNodes(unfolded_expression)

\* the substituted Breit-Wigner is smaller, has a collapsed real number and
\* keeps a constant product with the imaginary unit
C2_Witness ==
    /\ Ran("symbolics", "substituted_expr")
    /\ CountNodes(substituted_expr) < CountNodes(expression)
    /\ \E e \in Subtrees(substituted_expr) : IsNumber(e) /\ ~IsInteger(e.val)
    /\ \E e \in Subtrees(substituted_expr) : IsConstant(e) /\ e.op = "Mul"

\* C3: the expression graph is immutable.  A substitution produces a new
\* graph and leaves the original unchanged: after the substitutions the
\* original still is the graph that was built, with all of its symbols, and
\* the code is generated from it over all of its symbols.
C3_OriginalGraphUnchanged ==
    /\ Ran("symbolics", "expression") =>
          /\ expression = BreitWigner
          /\ FreeSymbols(expression) = {s, m0, Gamma0, g}
    /\ Ran("symbolics", "full_func") =>
          /\ full_func = Lambdify(<<s, m0, Gamma0, g>>, BreitWigner)
          /\ {full_func.args[i] : i \in 1..Len(full_func.args)} = FreeSymbols(BreitWigner)
    /\ Ran("report022", "model") => model.expression = ModelExpression
    /\ Ran("report022", "fixed_intensity_func") =>
          /\ unfolded_expression = Doit(ModelExpression)
          /\ FreeSymbols(unfolded_expression)
                = KeySet(model.parameter_defaults) \cup model.kinematic_variables
    /\ Ran("report022", "intensity_func") =>
          {intensity_func.argument_order[i] : i \in 1..Len(intensity_func.argument_order)}
             = FreeSymbols(unfolded_expression) \ KeySet(fixed_symbols)

\* the code of full_func was generated after the substitution
C3_Witness ==
    /\ Ran("symbolics", "full_func")
    /\ substituted_expr # Undefined
    /\ substituted_expr # expression
    /\ Len(full_func.args) = 4

\* the values of the symbols at index k of a call
PointOf(names, values, k) ==
    [name \in {names[i] : i \in 1..Len(names)} |->
        LET x == values[CHOOSE i \in 1..Len(names) : names[i] = name]
        IN IF x.arr THEN x.data[k].v ELSE x.data[1].v]

\* the expression a called function was generated from
ExpressionOf(func) == IF func = "full_func" THEN expression ELSE substituted_expr
ArgsOf(func) == IF func = "full_func" THEN <<s, m0, Gamma0, g>> ELSE <<s>>

\* C4: a generated function evaluates the formula element-wise.  For input
\* arrays of equal length n (scalars aside) the output is an array of length
\* n, and its k-th element is the formula at the k-th elements of the inputs.
C4_ElementWise ==
    call # NoCall =>
       LET n == Len(call.args[1].data)
       IN /\ call.out.arr
          /\ Len(call.out.data) = n
          /\ \A k \in 1..n :
                call.out.data[k].v
                   = Evaluate(ExpressionOf(call.func), PointOf(ArgsOf(call.func), call.args, k))

\* full_func was called with two arrays whose elements differ
C4_Witness ==
    /\ call.func = "full_func"
    /\ Len(call.out.data) = 2
    /\ call.args[2].arr
    /\ call.args[1].data[1] # call.args[1].data[2]
    /\ call.args[2].data[1] # call.args[2].data[2]
    /\ call.out.data[1] # call.out.data[2]

\* the substituted values, as arguments of full_func
SubstitutedArguments ==
    <<Scalar(Const(Substitutions[m0])), Scalar(Const(Substitutions[Gamma0])),
      Scalar(Const(Substitutions[g]))>>

Steps(op) == {i \in 1..Len(log) : log[i].op = op}

\* C6: in every run of the pipeline the graph is built once, then optionally
\* substituted, then handed to the code generator.  No code is generated
\* before the graph it uses was built, and every substitution that produces
\* the expression of a generated function happens before that function is
\* generated: the code of a function is the code of its expression as it is.
C6_BuildSubstituteGenerate ==
    /\ Cardinality(Steps("build")) <= 1
    /\ \A j \in Steps("subs") \cup Steps("doit") \cup Steps("codegen") :
          \E i \in Steps("build") : i < j
    /\ \A j \in Steps("codegen") :
          /\ log[j].kind = "graph"
          /\ \E i \in 1..(j - 1) : log[i].dst = log[j].src
          /\ \A i \in Steps("subs") : log[i].dst = log[j].src => i < j
    /\ Ran("symbolics", "full_func") => full_func.code = PrintCode(expression)
    /\ Ran("symbolics", "substituted_func") =>
          substituted_func.code = PrintCode(substituted_expr)
    /\ Ran("report022", "fixed_intensity_func") =>
          fixed_intensity_func.function.code = PrintCode(substituted_expression)
    /\ Ran("report022", "intensity_func") =>
          intensity_func.function.code = PrintCode(expression)

\* report 022 built, substituted and generated twice over
C6_Witness ==
    /\ Ran("report022", "intensity_func")
    /\ Cardinality(Steps("subs")) = 2
    /\ Cardinality(Steps("codegen")) = 2
    /\ log[Len(log)].op = "codegen"

\* C7 as stated: wherever derivatives are computed, the differentiation is
\* applied to the graph and precedes the code generation.
C7_DifferentiationOnGraphBeforeCodegen ==
    \A j \in Steps("diff") :
       /\ log[j].kind = "graph"
       /\ \A i \in Steps("codegen") : j < i

\* C7: in report 022 the derivatives are taken by jax.jacfwd of the already
\* generated numerical function: every differentiation follows the code
\* generation of intensity_func and is applied to that function with the
\* data inserted, not to the expression graph.
C7_DifferentiationOfGeneratedFunction ==
    /\ \A j \in Steps("diff") :
          /\ log[j].kind = "function"
          /\ \E i \in Steps("codegen") : i < j /\ log[i].dst = "intensity_func"
    /\ Ran("report022", "gradient_func") =>
          /\ gradient_func.of.func = intensity_func.function
          /\ gradient_func.of.func = Lambdify(intensity_func.argument_order, expression)
    /\ Ran("report022", "estimator_gradient") =>
          estimator_gradient.of.data_func.func = intensity_func.function

\* both gradients of report 022 were created
C7_Witness ==
    /\ Ran("report022", "estimator_gradient")
    /\ Cardinality(Steps("diff")) = 2

\* the values of the symbols of report 022 at data point i
DataPoint(i) ==
    [name \in KinematicVariables \cup KeySet(free_symbols) |->
        IF name \in KinematicVariables THEN data[name].data[i].v
        ELSE RealPart(Get(free_symbols, name))]

NumberOfDataPoints == Len(data[m_12].data)

\* C8: differentiation gives one partial derivative per variable, in the
\* order of the list.  gradient_func called with the values of the free
\* parameters returns one entry per free parameter; the k-th entry is the
\* derivative with respect to the k-th parameter and holds one value per
\* data point.
C8_GradientPerParameterInOrder ==
    Ran("report022", "gradient_values") =>
       /\ Len(gradient_values) = Len(free_symbols)
       /\ Len(gradient_values) = Len(parameter_values)
       /\ \A k \in 1..Len(gradient_values) :
             /\ Len(gradient_values[k]) = NumberOfDataPoints
             /\ \A i \in 1..NumberOfDataPoints :
                   gradient_values[k][i]
                      = Evaluate(Derivative(expression, parameter_values[k].key),
                                 DataPoint(i))

\* a gradient of three parameters over two data points, the entries differ
C8_Witness ==
    /\ Ran("report022", "gradient_values")
    /\ Len(gradient_values) = 3
    /\ NumberOfDataPoints = 2
    /\ gradient_values[1] # gradient_values[2]
    /\ gradient_values[2] # gradient_values[3]
    /\ gradient_values[1] # gradient_values[3]
    /\ gradient_values[1][1] # gradient_values[1][2]

(* ---------------------------------------------------------------------- *)
(* Properties of the test run                                              *)
(* ---------------------------------------------------------------------- *)
UnderTestPaths(f) == \E root \in TestPaths : IsPrefix(root, f.dir)
Notebooks == {f \in {RepositoryFiles[i] : i \in 1..Len(RepositoryFiles)} : IsNotebook(f)}
Executed == {results[i].path : i \in 1..Len(results)}

\* C9 as stated: every notebook under the test paths, docs/adr and
\* docs/report/019.ipynb included, is collected and executed.
C9_EveryNotebookExecuted ==
    session = "finished" =>
       \A f \in Notebooks : UnderTestPaths(f) => f \in Executed

\* the directories the configuration keeps the run out of
InExcludedDirectory(f) ==
    \/ \E i \in 1..Len(f.dir) : f.dir[i] \in {".ipynb_checkpoints", ".virtual_documents", "_build"}
    \/ IsPrefix(<<"docs", "adr">>, f.dir)

\* C9: the notebooks that are collected and executed are those under the
\* test paths that lie in no directory matched by norecursedirs
\* (.ipynb_checkpoints, .virtual_documents, _build, docs/adr) and are not
\* docs/report/019.ipynb, which the -k expression deselects; each of them is
\* executed once, in the order of collection.
C9_ExecutedNotebooks ==
    /\ session # "collect" =>
          /\ {selected[i] : i \in 1..Len(selected)}
                = {f \in Notebooks : /\ UnderTestPaths(f)
                                      /\ ~InExcludedDirectory(f)
                                      /\ f # File(<<"docs", "report">>, "019", "ipynb")}
          /\ \A i, j \in 1..Len(selected) : i # j => selected[i] # selected[j]
          /\ \A i \in 1..Len(results) : results[i].path = selected[i]
    /\ session = "finished" => Len(results) = Len(selected)

\* the session finished: reports 009 and 022 and symbolics ran, 019 and the
\* notebooks of docs/adr did not
C9_Witness ==
    /\ session = "finished"
    /\ File(<<"docs", "report">>, "022", "ipynb") \in Executed
    /\ File(<<"docs">>, "symbolics", "ipynb") \in Executed
    /\ File(<<"docs", "report">>, "019", "ipynb") \notin Executed
    /\ File(<<"docs", "adr", "002">>, "composition", "ipynb") \notin Executed

\* the code cells of a notebook, by their indices in order
CodeCells(cells) == LET IsCode(i) == cells[i] = "code"
                    IN SelectSeq([i \in 1..Len(cells) |-> i], IsCode)

\* the seconds the run of the notebook took: a cell is cut off at the timeout
RECURSIVE Elapsed(_)
Elapsed(trace) ==
    IF trace = <<>> THEN 0
    ELSE LET t == Head(trace).seconds
         IN (IF t > NbmakeTimeout THEN NbmakeTimeout ELSE t) + Elapsed(Tail(trace))

\* C10 as stated, for the timeout: a run of the notebook that exceeds the
\* timeout of 1200 seconds makes the test fail.
C10_RunOverTimeoutFails ==
    (run.status \in {"passed", "failed"} /\ Elapsed(run.trace) > NbmakeTimeout)
       => run.status = "failed"

CompletedInTime(entry) == ~entry.raises /\ entry.seconds <= NbmakeTimeout

\* C10: the test of a notebook passes if and only if every code cell, executed
\* in order from first to last, completes without raising and within the
\* timeout of 1200 seconds, which is a limit for each cell and not for the
\* run.  The first cell that raises or runs longer than that makes the test
\* fail, and no later cell is executed.
C10_PassIffEveryCellCompletes ==
    /\ run.status \in {"passed", "failed"} =>
          LET code == CodeCells(run.cells)
              n == Len(run.trace)
          IN /\ n <= Len(code)
             /\ \A i \in 1..n : run.trace[i].cell = code[i]
             /\ run.status = "passed" <=>
                   (n = Len(code) /\ \A i \in 1..n : CompletedInTime(run.trace[i]))
             /\ run.status = "failed" <=>
                   (/\ n >= 1
                    /\ ~CompletedInTime(run.trace[n])
                    /\ \A i \in 1..(n - 1) : CompletedInTime(run.trace[i]))
    /\ \A i \in 1..Len(results) : results[i].outcome \in {"passed", "failed"}

\* a cell ran into the timeout and the cell after it was not executed
C10_Witness ==
    /\ run.status = "failed"
    /\ run.cells = <<"code", "code">>
    /\ Len(run.trace) = 1
    /\ ~run.trace[1].raises
    /\ run.trace[1].seconds > NbmakeTimeout

(* ---------------------------------------------------------------------- *)
(* Properties of the dynamics classes of docs/adr/002                      *)
(* ---------------------------------------------------------------------- *)

\* C11: the expression attribute of every DynamicsExpression is a Python
\* function of symbols: for every DynamicsExpression, those that the builders
\* relativistic_breit_wigner_from_graph and
\* relativistic_breit_wigner_with_form_factor_from_graph return included,
\* substitute() succeeds and returns that function applied positionally to the
\* variables followed by the parameters, in their stored order.
C11_SubstituteAppliesTheFunction ==
    returned.op = "substitute" =>
       /\ returned.kind = "value"
       /\ IsIterable(returned.self.variables)
       /\ IsIterable(returned.self.parameters)
       /\ "type" \in DOMAIN returned.self.expression
       /\ returned.self.expression.type = "function"
       /\ returned.value = CallPython(returned.self.expression,
                                      returned.self.variables.items
                                         \o returned.self.parameters.items)

\* C12: DynamicsExpression is frozen.  After construction its variables,
\* parameters and expression never change: an attempted assignment of an
\* attribute is rejected with an error and leaves the three attributes as they
\* were, and substitute() modifies none of them.
C12_Frozen ==
    /\ returned.op = "setattr" =>
          /\ returned.kind = "error"
          /\ returned.value.type = "FrozenInstanceError"
          /\ dynamics = returned.self
    /\ returned.op = "substitute" => dynamics = returned.self

\* an assignment to an attribute of bw_decay_f0 was rejected
C12_Witness ==
    /\ returned.op = "setattr"
    /\ returned.kind = "error"
    /\ returned.self = BwDecayF0
    /\ dynamics = BwDecayF0

\* C13: the DynamicsFunction base class enforces a correct interface.  A
\* subclass can only be used to build an expression if it implements both eval
\* and from_graph: the use of a subclass that leaves one of the abstract
\* methods unimplemented is rejected with an error, it does not silently
\* produce an expression.
C13_AbstractMethodsEnforced ==
    (returned.op \in {"new", "from_graph"} /\ returned.self.defines # AbstractMethods)
       => returned.kind = "error"

(* ---------------------------------------------------------------------- *)
(* Properties of the loop and of the array computation of symbolics.ipynb   *)
(* ---------------------------------------------------------------------- *)

Orderings(S) ==
    {q \in [1..Cardinality(S) -> S] : \A i, j \in 1..Cardinality(S) : q[i] = q[j] => i = j}

\* the orders in which no parameter comes before a data argument
DataFirst(order, columns) ==
    \A i, j \in 1..Len(order) :
       (i < j /\ order[j] \in DOMAIN columns) => order[i] \in DOMAIN columns

\* with the arguments of the generated function in this order, the call
\* Partial(function, *data_columns.values())(*parameter_values.values()) gives
\* every argument the value under its name, and the first positions of the
\* partial application are the free parameters
BindsEveryArgumentByName(order, columns, parameters) ==
    LET dc == DataColumnsOf(order, order, columns)
        pv == ParameterValuesOf(order, order, parameters)
        passed == PartialArguments(Partial(NoFunction, DictValues(dc)), DictValues(pv))
    IN /\ Len(passed) = Len(order)
       /\ \A i \in 1..Len(order) :
             /\ order[i] \in KeySet(dc \o pv)
             /\ passed[i] = Get(dc \o pv, order[i])
       /\ \A k \in 1..Len(pv) : order[Len(dc) + k] \in KeySet(parameters)

ArgumentsOfIntensityFunc == {arg_names[i] : i \in 1..Len(arg_names)}

\* C15 as stated: the positional binding gives every data array and every
\* parameter value to the argument of its name for every order of the
\* arguments of the generated function.
C15_PositionalBindingForEveryOrder ==
    Ran("report022", "gradient_func") =>
       \A order \in Orderings(ArgumentsOfIntensityFunc) :
          BindsEveryArgumentByName(order, data, intensity_func.parameters)

\* C15: in report 022 the data columns are bound positionally with Partial and
\* the parameter values are then passed positionally.  For every order of the
\* arguments of the generated function in which the data arguments come before
\* the parameters, as in the orders of the generated function of the report,
\* every data array and every parameter value reaches the argument whose name
\* is its dictionary key, and the positions 0..len(parameter_values)-1 of the
\* partial application, which jacfwd differentiates, are the free parameters.
C15_PositionalBindingOfDataFirstOrders ==
    Ran("report022", "gradient_func") =>
       /\ DataFirst(intensity_func.argument_order, data)
       /\ data_columns = DataColumnsOf(arg_names, intensity_func.argument_order, data)
       /\ func_with_data_inserted.bound = DictValues(data_columns)
       /\ gradient_func.argnums = Range(Len(parameter_values))
       /\ \A k \in 1..Len(parameter_values) :
             parameter_values[k].key \in KeySet(free_symbols)
       /\ \A order \in Orderings(ArgumentsOfIntensityFunc) :
             DataFirst(order, data) =>
                BindsEveryArgumentByName(order, data, intensity_func.parameters)

\* two data columns were bound and three parameter values are passed, with
\* the arguments of the generated function in the reversed order
C15_Witness ==
    /\ Ran("report022", "gradient_func")
    /\ Len(data_columns) = 2
    /\ Len(parameter_values) = 3
    /\ intensity_func.argument_order # SortedNames(ArgumentsOfIntensityFunc)
    /\ BindsEveryArgumentByName(intensity_func.argument_order, data,
                                intensity_func.parameters)

(* ---------------------------------------------------------------------- *)
(* Properties of the relativistic K-matrix of report 009                   *)
(* ---------------------------------------------------------------------- *)
Channels == 1..matrix.n_channels

\* C16: the phase-space matrix that relativistic_k_matrix builds is diagonal
\* for every n_channels: it has n_channels rows and n_channels columns, its
\* entry (i, i) is the phase-space factor of channel i for every i in
\* 0..n_channels-1, and every entry off the diagonal is zero.
C16_PhaseSpaceMatrixIsDiagonal ==
    matrix # NoMatrix =>
       /\ Len(matrix.rho) = matrix.n_channels
       /\ \A r \in Channels :
             /\ Len(matrix.rho[r]) = matrix.n_channels
             /\ matrix.rho[r][r].op = "PhaseSpaceFactor"
             /\ matrix.rho[r][r].args[1] = Pow(Symbol("m"), Sympify(2))
             /\ matrix.rho[r][r].args[2].args[2] = Sympify(r - 1)
             /\ matrix.rho[r][r].args[3].args[2] = Sympify(r - 1)
             /\ matrix.rho[r][r].args[4] = Sympify(r - 1)
             /\ \A c \in Channels \ {r} : matrix.rho[r][c] = Sympify(0)

\* a matrix of two channels: zero off the diagonal, the factor of channel 1 in
\* entry (1, 1)
C16_Witness ==
    /\ matrix.n_channels = 2
    /\ matrix.rho[1][2] = Sympify(0)
    /\ matrix.rho[2][1] = Sympify(0)
    /\ matrix.rho[2][2].op = "PhaseSpaceFactor"
    /\ matrix.rho[2][2].args[4] = Sympify(1)

\* the symbols that relativistic_k_matrix makes from its arguments
SymbolsOfMatrix ==
    [m |-> Symbol("m"),
     M |-> IndexedBase("m", <<matrix.n_resonances>>),
     Gamma |-> IndexedBase("Gamma", <<matrix.n_resonances, Sympify(matrix.n_channels)>>),
     gamma |-> IndexedBase("gamma", <<matrix.n_resonances, Sympify(matrix.n_channels)>>),
     m_a |-> IndexedBase("m_a", <<Sympify(matrix.n_channels)>>),
     m_b |-> IndexedBase("m_b", <<Sympify(matrix.n_channels)>>)]

\* g_{R,i}(m), the residue function of the report
ResidueFunction(i) ==
    residue_function(globals, SymbolsOfMatrix.m, SymbolsOfMatrix.M, SymbolsOfMatrix.Gamma,
                     SymbolsOfMatrix.gamma, matrix.angular_momentum, i)

\* g_{R,i}(m) g_{R,j}(m) / ((m_R^2 - m^2) sqrt(rho_i rho_j))
CovariantParametrization(i, j) ==
    Over(Times(ResidueFunction(i), ResidueFunction(j)),
         Times(Minus(Pow(Indexed(SymbolsOfMatrix.M, <<globals.R>>), Sympify(2)),
                     Pow(SymbolsOfMatrix.m, Sympify(2))),
               Sqrt(Times(matrix.rho[i + 1][i + 1], matrix.rho[j + 1][j + 1]))))

\* C17: Kij_relativistic returns K_ij as the sum over all resonances R, each
\* index 0..n_resonances-1 once, of
\* g_{R,i}(m) g_{R,j}(m) / ((m_R^2 - m^2) sqrt(rho_i rho_j)), the covariant
\* parametrization of the report.
C17_CovariantParametrization ==
    matrix # NoMatrix =>
       \A r, c \in Channels :
          matrix.K[r][c] = Sum(CovariantParametrization(r - 1, c - 1), globals.R, Sympify(0),
                               Minus(matrix.n_resonances, Sympify(1)))

\* the IndexedBase objects of the given label below an expression
BasesIn(e, label) == {x \in Subtrees(e) : x.op = "IndexedBase" /\ x.name = label}

\* C18: the result of Kij_relativistic, and with it that of
\* relativistic_k_matrix, depends on the arguments of the call only: two calls
\* with equal arguments return the same expression whatever the values of the
\* variables m_a, m_b and R of the notebook, and the symbols of the masses of
\* the decay products in the coupled widths are the symbols of the phase-space
\* matrix that is built for the same n_channels.
C18_DependsOnArgumentsOnly ==
    matrix # NoMatrix =>
       /\ \A n \in 1..MaxChannels :
             relativistic_k_matrix(Namespace(n), matrix.n_resonances, matrix.n_channels,
                                   matrix.angular_momentum) = matrix
       /\ \A r, c \in Channels :
             /\ BasesIn(matrix.K[r][c], "m_a") = BasesIn(matrix.rho[r][r], "m_a")
             /\ BasesIn(matrix.K[r][c], "m_b") = BasesIn(matrix.rho[r][r], "m_b")

(* ---------------------------------------------------------------------- *)
(* Properties of plot3 of report 009                                       *)
(* ---------------------------------------------------------------------- *)
\* the last axis shows the component under the title, for some channel
Shows(component, ax_title) ==
    /\ figure.mesh = component
    /\ \E i \in 0..(figure.n_channels - 1) :
          figure.title = Title(ax_title, figure.n_channels, i)

\* C19: in plot3 the title of the axis names the component that is plotted:
\* 'imag' plots the imaginary part of T under the title Im T, 'real' plots the
\* real part under the title Re T, 'abs' plots the absolute value under |T|.
C19_TitleNamesThePlottedComponent ==
    (returned.op = "plot3" /\ returned.kind = "value") =>
       /\ imag_real = "imag" => Shows("Z.imag", "Im $T$")
       /\ imag_real = "real" => Shows("Z.real", "Re $T$")
       /\ imag_real = "abs" => Shows("np.abs(Z)", "$|T|$")

\* C20: plot3 with a value of imag_real other than 'imag', 'real' and 'abs'
\* raises NotImplementedError before an axis is cleared or drawn on, so the
\* figure is left as it was; no value that the radio buttons offer leads to
\* this error.
C20_OtherValueRaisesBeforeDrawing ==
    returned.op = "plot3" =>
       /\ imag_real \notin {"imag", "real", "abs"} =>
             /\ returned.kind = "error"
             /\ returned.value.type = "NotImplementedError"
             /\ figure = returned.self
       /\ imag_real \in {RadioButtons[k] : k \in 1..Len(RadioButtons)} =>
             returned.kind = "value"

\* plot3 raised for the value 'phase' and the axis still shows the plot of
\* the real part that was there before
C20_Witness ==
    /\ returned.op = "plot3"
    /\ returned.kind = "error"
    /\ imag_real = "phase"
    /\ figure.mesh = "Z.real"
    /\ figure = returned.self

(* ---------------------------------------------------------------------- *)
(* Properties of the free and the fixed parameters of report 022           *)
(* ---------------------------------------------------------------------- *)
\* the keys of a dict whose name starts with ch
KeysStartingWith(d, ch) == {k \in KeySet(d) : StartsWith(k, ch)}

\* C21: in report 022 free_symbols and fixed_symbols partition the parameter
\* defaults of the model: they are disjoint, their union is the full set of
\* the parameter defaults with the values unchanged, and fixed_symbols is made
\* of the parameters whose name starts with 'd' and of exactly one coefficient
\* whose name starts with 'C'.
C21_FreeAndFixedPartitionTheDefaults ==
    Ran("report022", "fixed_symbols") =>
       /\ KeySet(free_symbols) \cap KeySet(fixed_symbols) = {}
       /\ KeySet(free_symbols) \cup KeySet(fixed_symbols) = KeySet(model.parameter_defaults)
       /\ Len(free_symbols) + Len(fixed_symbols) = Len(model.parameter_defaults)
       /\ \A k \in KeySet(free_symbols) :
             Get(free_symbols, k) = Get(model.parameter_defaults, k)
       /\ \A k \in KeySet(fixed_symbols) :
             Get(fixed_symbols, k) = Get(model.parameter_defaults, k)
       /\ KeysStartingWith(fixed_symbols, "d") = KeysStartingWith(model.parameter_defaults, "d")
       /\ Cardinality(KeysStartingWith(fixed_symbols, "C")) = 1
       /\ KeySet(fixed_symbols)
             = KeysStartingWith(fixed_symbols, "d") \cup KeysStartingWith(fixed_symbols, "C")

\* the defaults list C_2 before C_1: C_2 is the coefficient that is fixed,
\* next to d_f0, and three parameters stay free
C21_Witness ==
    /\ Ran("report022", "fixed_symbols")
    /\ KeySet(fixed_symbols) = {d_f0, C_2}
    /\ KeySet(free_symbols) = {C_1, Gamma_f0, m_f0}

(* ---------------------------------------------------------------------- *)
(* Properties of the progress bar of report 022                            *)
(* ---------------------------------------------------------------------- *)
\* the index in evaluations of the creation of the bar in hand
CreationOfBar == CHOOSE i \in 1..Len(evaluations) : evaluations[i] = BarCreated /\ \A j \in (i + 1)..Len(evaluations) : evaluations[j] # BarCreated
\* the calls of estimator that ended since the bar in hand was created
EvaluationsSinceCreation == {i \in (CreationOfBar + 1)..Len(evaluations) : evaluations[i].event = "estimator"}
\* those of them that estimator_with_progress_bar made
CallsSinceCreation == {i \in EvaluationsSinceCreation : evaluations[i].by = "estimator_with_progress_bar"}

\* each call of estimator_with_progress_bar returns the value of estimator at
\* its arguments, and shows it on the bar
ReturnsTheEstimatorValue ==
    returned.op = "estimator_with_progress_bar" =>
       /\ returned.value = CallEstimator(Estimator(func_with_data_inserted), returned.self)
       /\ PROGRESS_BAR.postfix = returned.value

\* C22 as stated: the count of the bar in hand equals the number of evaluations of
\* estimator that ended since that bar was created, and each call of
\* estimator_with_progress_bar returns the value that estimator computed.
C22_CountEqualsEstimatorEvaluations ==
    PROGRESS_BAR # None =>
       /\ PROGRESS_BAR.n = Cardinality(EvaluationsSinceCreation)
       /\ ReturnsTheEstimatorValue

\* C22: the count of the bar in hand equals the number of calls of
\* estimator_with_progress_bar that ended since that bar was created (the bar
\* is reset before the second optimization), the evaluations of estimator that
\* estimator_gradient makes do not advance it, and each call of
\* estimator_with_progress_bar returns the value that estimator computed.
C22_CountEqualsCallsOfTheWrapper ==
    PROGRESS_BAR # None =>
       /\ PROGRESS_BAR.n = Cardinality(CallsSinceCreation)
       /\ PROGRESS_BAR.n <= Cardinality(EvaluationsSinceCreation)
       /\ ReturnsTheEstimatorValue

\* the second migrad has called its function twice and its gradient once: the
\* bar that was reset counts two
C22_Witness ==
    /\ autodiff_optimizer.state = "done"
    /\ optimizer.nfcn = 1
    /\ autodiff_optimizer.nfcn = 2
    /\ autodiff_optimizer.ngrad = 1
    /\ PROGRESS_BAR.n = 2
    /\ Cardinality(EvaluationsSinceCreation) = 3

(* ---------------------------------------------------------------------- *)
(* The two formulations of the dynamics                                    *)
(* ---------------------------------------------------------------------- *)
\* the builder of composition.ipynb that stands for a class of function.ipynb
BuilderOf(cls) == IF cls.name = "RelativisticBreitWigner" THEN "relativistic_breit_wigner_from_graph" ELSE "relativistic_breit_wigner_with_form_factor_from_graph"
\* the class of function.ipynb that stands for a builder of composition.ipynb
ClassOf(builder) == IF builder = "relativistic_breit_wigner_from_graph" THEN RelativisticBreitWigner ELSE RelativisticBreitWignerWithFF
\* the symbols that a builder passed to its expression, in the order of the call
PassedBy(dyn) == <<dyn.variables>> \o dyn.parameters.items

\* C23: the dynamics formulated by subclassing and by composition agree: on the
\* same symbols eval of a class and the function of composition.ipynb give the
\* same expression, and for the same graph and edge from_graph of a class and
\* the builder create the same symbols and pass them in the same order (mass,
\* mass0, gamma0, m_a, m_b, angular_momentum, meson_radius).
C23_SubclassingAndCompositionAgree ==
    /\ \A graph \in Graphs : \A edge_id \in DOMAIN graph :
          returned = Build(subclass, "from_graph", ArgumentsFromGraph(subclass, graph, edge_id))
             /\ subclass.defines = AbstractMethods
          => /\ ArgumentsFromGraph(subclass, graph, edge_id)
                   = PassedBy(CallBuilder(BuilderOf(subclass), graph, edge_id))
             /\ returned.value = CallBuilder(BuilderOf(subclass), graph, edge_id).expression
    /\ \A builder \in Builders :
          returned = Returned(builder, None, dynamics)
          => Eval(ClassOf(builder), PassedBy(dynamics)) = dynamics.expression

\* from_graph of the class with the form factor has built the expression of
\* the J/psi edge
C23_Witness ==
    /\ notebook = "function"
    /\ subclass = RelativisticBreitWignerWithFF
    /\ \E graph \in Graphs :
          /\ 2 \in DOMAIN graph
          /\ returned = Build(subclass, "from_graph", ArgumentsFromGraph(subclass, graph, 1))
          /\ returned.value.op = "Mul"

(* ---------------------------------------------------------------------- *)
(* Properties of the Mandelbrot image                                      *)
(* ---------------------------------------------------------------------- *)
\* the red, green and blue that the hue sector selects for a call, each
\* shifted by m = v - c
RedGreenBlue(hue, sat, val) == ShiftedInOrder(Sector(hue, Chroma(sat, val), Secondary(hue, Chroma(sat, val))), CAdd(val, CNeg(Chroma(sat, val))))

\* C24: hsv2rgb(h, s, v) returns its components in the order red, green, blue:
\* the caller's r, g, b = hsv2rgb(...) are the red, green and blue that the hue
\* sector selects, each shifted by m = v - c, and so is the pixel that
\* mandelbrot() stores.
C24_ReturnsRedGreenBlue ==
    returned.op = "hsv2rgb" =>
       /\ returned.value.items
             = RedGreenBlue(returned.self.items[1], returned.self.items[2], returned.self.items[3])
       /\ frame.pc # "done" =>
             img[assigned[Len(assigned)]]
                = RGB(RedGreenBlue(returned.self.items[1], returned.self.items[2], returned.self.items[3])[1],
                      RedGreenBlue(returned.self.items[1], returned.self.items[2], returned.self.items[3])[2],
                      RedGreenBlue(returned.self.items[1], returned.self.items[2], returned.self.items[3])[3])

\* the pixels of the image
Pixels == (1..frame.h) \X (1..frame.w)
\* how often a pixel was stored
TimesAssigned(p) == Cardinality({k \in 1..Len(assigned) : assigned[k] = p})
\* the hue of the pixel in hand
HueOf(fr) == ColorArguments(fr)[1]

\* C25: in mandelbrot() the escape loop of every pixel ends after at most
\* maxIter - 1 updates of z; on exit 0 <= i <= maxIter, so the hue
\* i / maxIter * 360 lies in [0, 360]; and when the double loop ends every one
\* of the h x w pixels was assigned exactly once.
C25_EscapeLoopAndPixels ==
    /\ frame.pc \in {"while", "color"} =>
          /\ frame.updates <= frame.maxIter - 1
          /\ frame.updates <= frame.maxIter - frame.i
    /\ frame.pc = "while" => frame.i >= 1
    /\ frame.pc = "color" =>
          /\ 0 <= frame.i /\ frame.i <= frame.maxIter
          /\ ~RLess(HueOf(frame), CZero) /\ ~RLess(Integer(360), HueOf(frame))
    /\ frame.pc \in {"pixel", "while", "color"} =>
          /\ \A p \in Pixels : TimesAssigned(p) <= 1
          /\ TimesAssigned(<<frame.y, frame.x>>) = 0
    /\ frame.pc \in {"return", "done"} =>
          /\ \A p \in Pixels : TimesAssigned(p) = 1 /\ img[p] # Undef
          /\ Len(assigned) = frame.h * frame.w

\* an image of more than one row and column is complete; one of its pixels
\* left the loop at once with i = maxIter, another after maxIter - 1 updates
C25_Witness ==
    /\ frame.pc = "done"
    /\ frame.w > 1 /\ frame.h > 1 /\ frame.maxIter = MaxIter
    /\ \E p \in Pixels : img[p] = RGB(COne, CZero, CZero)
    /\ \E p \in Pixels : img[p] = RGB(CZero, CZero, CZero)

====
